---- MODULE Spec2Model ----
(***************************************************************************)
(* Model of the multipass backend: the command pipeline (normalize,        *)
(* classify, execute) and the lifecycle tracker of asynchronous VM         *)
(* creations, as implemented by the three servers of the repository:       *)
(*   api_server.py    asyncio server, creations as asyncio tasks           *)
(*   api_server1.py   threaded server, creations as daemon threads         *)
(*   proxy_agent1.py  chat proxy executing commands, creations as threads  *)
(* Text is modelled as a sequence of one-character strings, so that the    *)
(* string functions of the code are computed character by character.       *)
(***************************************************************************)
EXTENDS Integers, Sequences, FiniteSets, TLC

\* ------------------------------------------------------------------ text

SP == " "
Whitespace == {" ", "\n", "\t"}
Quotes == {"'", "\""}
Digits == {"0", "1", "2", "3", "4", "5", "6", "7", "8", "9"}
Letters ==
  {"a", "b", "c", "d", "e", "f", "g", "h", "i", "j", "k", "l", "m", "n", "o",
   "p", "q", "r", "s", "t", "u", "v", "w", "x", "y", "z", "G", "M"}

w_multipass == <<"m", "u", "l", "t", "i", "p", "a", "s", "s">>
w_launch == <<"l", "a", "u", "n", "c", "h">>
w_create == <<"c", "r", "e", "a", "t", "e">>
w_start == <<"s", "t", "a", "r", "t">>
w_stop == <<"s", "t", "o", "p">>
w_delete == <<"d", "e", "l", "e", "t", "e">>
w_purge == <<"p", "u", "r", "g", "e">>
w_recover == <<"r", "e", "c", "o", "v", "e", "r">>
w_list == <<"l", "i", "s", "t">>
w_info == <<"i", "n", "f", "o">>
w_frob == <<"f", "r", "o", "b">>
w_name == <<"n", "a", "m", "e">>
w_memory == <<"m", "e", "m", "o", "r", "y">>
w_mem == <<"m", "e", "m">>
w_disk == <<"d", "i", "s", "k">>
w_disk_size == <<"d", "i", "s", "k", "-", "s", "i", "z", "e">>
w_cpus == <<"c", "p", "u", "s">>
w_format == <<"f", "o", "r", "m", "a", "t">>
w_json == <<"j", "s", "o", "n">>
w_unknown == <<"u", "n", "k", "n", "o", "w", "n">>
dd == <<"-", "-">>
f_name == dd \o w_name
f_memory == dd \o w_memory
f_disk == dd \o w_disk
f_cpus == dd \o w_cpus
f_format == dd \o w_format

\* str.startswith
StartsWith(s, p) == Len(s) >= Len(p) /\ SubSeq(s, 1, Len(p)) = p

\* s[k:] for a 0-based k
From(s, k) == SubSeq(s, k + 1, Len(s))

RECURSIVE LStrip(_)
LStrip(s) == IF s # <<>> /\ Head(s) \in Whitespace THEN LStrip(Tail(s)) ELSE s

RECURSIVE RStrip(_)
RStrip(s) ==
  IF s # <<>> /\ s[Len(s)] \in Whitespace THEN RStrip(SubSeq(s, 1, Len(s) - 1)) ELSE s

\* str.strip
Strip(s) == RStrip(LStrip(s))

\* str.replace(old, new): every non-overlapping occurrence, left to right
RECURSIVE Replace(_, _, _)
Replace(s, old, new) ==
  IF s = <<>> THEN <<>>
  ELSE IF StartsWith(s, old) THEN new \o Replace(From(s, Len(old)), old, new)
  ELSE <<Head(s)>> \o Replace(Tail(s), old, new)

\* str.replace(old, new, 1): the first occurrence only
RECURSIVE ReplaceFirst(_, _, _)
ReplaceFirst(s, old, new) ==
  IF s = <<>> THEN <<>>
  ELSE IF StartsWith(s, old) THEN new \o From(s, Len(old))
  ELSE <<Head(s)>> \o ReplaceFirst(Tail(s), old, new)

RECURSIVE Remove(_, _)
Remove(s, c) ==
  IF s = <<>> THEN <<>>
  ELSE IF Head(s) = c THEN Remove(Tail(s), c)
  ELSE <<Head(s)>> \o Remove(Tail(s), c)

\* str.isalnum: non-empty and every character a letter or a digit
isalnum(s) == s # <<>> /\ \A i \in 1..Len(s) : s[i] \in Letters \cup Digits

\* the name check of create_vm, create_vm_async and async_create_vm_background
valid_vm_name(vm_name) == isalnum(Remove(Remove(vm_name, "-"), "_"))

\* ' '.join(tokens)
RECURSIVE Join(_)
Join(toks) ==
  IF toks = <<>> THEN <<>>
  ELSE IF Len(toks) = 1 THEN toks[1]
  ELSE toks[1] \o <<SP>> \o Join(Tail(toks))

\* shlex.split (POSIX mode, no escapes in the alphabet): whitespace separates
\* tokens, a quote opens a quoted part up to the same quote, an unclosed quote
\* raises ValueError (ok = FALSE).
RECURSIVE shlex_scan(_, _, _, _, _)
shlex_scan(s, cur, inTok, quote, acc) ==
  IF s = <<>> THEN
    IF quote # "" THEN [ok |-> FALSE, args |-> <<>>]
    ELSE [ok |-> TRUE, args |-> IF inTok THEN Append(acc, cur) ELSE acc]
  ELSE LET c == Head(s) r == Tail(s) IN
    IF quote # "" THEN
      IF c = quote THEN shlex_scan(r, cur, TRUE, "", acc)
      ELSE shlex_scan(r, Append(cur, c), TRUE, quote, acc)
    ELSE IF c \in Whitespace THEN
      IF inTok THEN shlex_scan(r, <<>>, FALSE, "", Append(acc, cur))
      ELSE shlex_scan(r, <<>>, FALSE, "", acc)
    ELSE IF c \in Quotes THEN shlex_scan(r, cur, TRUE, c, acc)
    ELSE shlex_scan(r, Append(cur, c), TRUE, "", acc)

shlex_split(s) == shlex_scan(s, <<>>, FALSE, "", <<>>)

\* api_server.normalize_multipass_command: "create" verb to "launch", then the
\* short flags (surrounded by spaces) to the long ones, in dict order.
normalize_multipass_command(command) ==
  LET c0 == IF StartsWith(command, w_create)
            THEN ReplaceFirst(command, w_create, w_launch) ELSE command
      c1 == Replace(c0, <<SP, "-", "n", SP>>, <<SP>> \o f_name \o <<SP>>)
      c2 == Replace(c1, <<SP, "-", "m", SP>>, <<SP>> \o f_memory \o <<SP>>)
      c3 == Replace(c2, <<SP, "-", "d", SP>>, <<SP>> \o f_disk \o <<SP>>)
  IN Replace(c3, <<SP, "-", "c", SP>>, <<SP>> \o f_cpus \o <<SP>>)

\* ------------------------------------------------------------ executor

\* What one invocation of the control binary can end as.
ExecErrors == {"ToolNotFound", "Timeout", "NonZeroExit", "InternalError"}
ExecOutcomes == {"Success"} \cup ExecErrors

\* What a function that runs the binary hands its caller: a returned value or a
\* raised exception, its code (the HTTP status of the exception, or the return
\* code of the result) and its text.
Report(raised, code, text) == [raised |-> raised, code |-> code, text |-> text]

\* a function that reports a child that ran out of time as a failed command
run_multipass_command_vague(outcome) ==
  IF outcome = "Success" THEN Report(FALSE, 0, "success")
  ELSE IF outcome = "ToolNotFound" THEN Report(FALSE, 0, "Multipass executable not found at path")
  ELSE IF outcome \in {"NonZeroExit", "Timeout"} THEN Report(FALSE, 0, "Multipass command failed: stderr")
  ELSE Report(FALSE, 0, "Unexpected error")

\* api_server.run_multipass_command (lines 98-137): every outcome is returned
run_multipass_command(outcome) ==
  IF outcome = "Success" THEN Report(FALSE, 0, "success")
  ELSE IF outcome = "ToolNotFound" THEN Report(FALSE, 0, "Multipass executable not found at path")
  ELSE IF outcome = "NonZeroExit" THEN Report(FALSE, 0, "Multipass command failed: stderr")
  ELSE IF outcome = "Timeout" THEN Report(FALSE, 0, "Command timed out")
  ELSE Report(FALSE, 0, "Unexpected error")

\* api_server.run_multipass_command_old (lines 139-181): every failure is raised
\* as an HTTP error; the error raised inside the try block for a missing binary
\* is caught by the last handler and raised again as an unexpected error
run_multipass_command_old(outcome) ==
  IF outcome = "Success" THEN Report(FALSE, 0, "stdout")
  ELSE IF outcome = "ToolNotFound"
    THEN Report(TRUE, 500, "Unexpected error: 500: Multipass executable not found at path")
  ELSE IF outcome = "NonZeroExit" THEN Report(TRUE, 500, "Multipass command failed: stderr")
  ELSE IF outcome = "Timeout" THEN Report(TRUE, 504, "Command timed out")
  ELSE Report(TRUE, 500, "Unexpected error")

\* api_server1.run_multipass_command (lines 33-66): a missing binary raises
\* FileNotFoundError before the try block, a failure of the child an HTTP error;
\* any other exception leaves the function as it is
api1_run_multipass_command(outcome) ==
  IF outcome = "Success" THEN Report(FALSE, 0, "stdout")
  ELSE IF outcome = "ToolNotFound" THEN Report(TRUE, 0, "FileNotFoundError: Multipass komutu bulunamadi")
  ELSE IF outcome = "NonZeroExit" THEN Report(TRUE, 400, "Multipass komutu basarisiz oldu: stderr")
  ELSE IF outcome = "Timeout" THEN Report(TRUE, 408, "Komut zaman asimina ugradi")
  ELSE Report(TRUE, 0, "Exception")

\* proxy_agent1.execute_multipass_command (lines 160-206): every outcome is
\* returned, with a return code of its own for the failures to run the child
pa1_run(outcome) ==
  IF outcome = "Success" THEN Report(FALSE, 0, "")
  ELSE IF outcome = "ToolNotFound" THEN Report(FALSE, -127, "")
  ELSE IF outcome = "NonZeroExit" THEN Report(FALSE, 1, "stderr")
  ELSE IF outcome = "Timeout" THEN Report(FALSE, -2, "Komut zaman asimina ugradi.")
  ELSE Report(FALSE, -3, "Beklenmeyen hata")

Runners ==
  {"run_multipass_command", "run_multipass_command_old", "api1_run_multipass_command", "pa1_run"}

RunnerReport(run, outcome) ==
  IF run = "run_multipass_command" THEN run_multipass_command(outcome)
  ELSE IF run = "run_multipass_command_old" THEN run_multipass_command_old(outcome)
  ELSE IF run = "api1_run_multipass_command" THEN api1_run_multipass_command(outcome)
  ELSE pa1_run(outcome)

\* One invocation: the function that ran it, the argument vector, whether it is
\* run through a command shell (shell=True in api_server.py), whether a child
\* process was started (not when the binary was not found), how it ended, and
\* what the function handed its caller.
Invocation(run, argv, outcome) ==
  [run |-> run, argv |-> argv,
   shell |-> run \in {"run_multipass_command", "run_multipass_command_old"},
   spawned |-> outcome # "ToolNotFound", outcome |-> outcome,
   report |-> RunnerReport(run, outcome)]

\* the located control binary, which replaces the command's first element
mp_path == <<"/", "m", "p">>

SetBinary(argv) == <<mp_path>> \o Tail(argv)

prefix_multipass == w_multipass \o <<SP>>

\* ----------------------------------------------------- lifecycle records

\* A message is a template of the code and the name formatted into it (the
\* error text formatted into an error message is left out).
Msg(tpl, vm_name) == [tpl |-> tpl, name |-> vm_name]

\* get_vm_creation_status's answer for a name without a record
UnknownRec(vm_name) ==
  [status |-> "unknown", message |-> Msg("olusturma islemi bulunamadi", vm_name)]

\* api_server.async_create_vm_background, api_server1.async_create_vm and
\* proxy_agent1.async_launch_vm: the record written at the begin of a creation
CreatingRec(vm_name) ==
  [status |-> "creating", message |-> Msg("olusturuluyor", vm_name)]

InvalidNameRec ==
  [status |-> "error",
   message |-> Msg("VM adi sadece harf, rakam, tire ve alt cizgi icerebilir", <<>>)]

ErrorRec ==
  [status |-> "error", message |-> Msg("olusturma hatasi", <<>>)]

CompletedRec(vm_name) ==
  [status |-> "completed", message |-> Msg("basariyla olusturuldu", vm_name)]

CompletedInfoRec(vm_name) ==
  [status |-> "completed", message |-> Msg("basariyla olusturuldu", vm_name),
   vm_info |-> [info |-> vm_name]]

DegradedRec(vm_name) ==
  [status |-> "completed",
   message |-> Msg("olusturuldu ancak detaylar alinamadi", vm_name)]

\* vm_creation_status[vm_name].update(rec): the fields of rec are written over
\* the record the name has, and the fields rec lacks stay
TransitionMerge(store, vm_name, rec) ==
  [k \in DOMAIN store \cup {vm_name} |->
     IF k # vm_name THEN store[k]
     ELSE IF vm_name \notin DOMAIN store THEN rec
     ELSE [f \in DOMAIN store[k] \cup DOMAIN rec |->
             IF f \in DOMAIN rec THEN rec[f] ELSE store[k][f]]]

\* vm_creation_status[vm_name]["status"] = rec["status"]: only the status of an
\* existing record is written
TransitionStatus(store, vm_name, rec) ==
  [k \in DOMAIN store \cup {vm_name} |->
     IF k # vm_name THEN store[k]
     ELSE IF vm_name \notin DOMAIN store THEN rec
     ELSE [store[k] EXCEPT !.status = rec.status]]
\* a store that is rebuilt by a write: the records of the other names are lost
TransitionClear(store, vm_name, rec) == [k \in {vm_name} |-> rec]


\* a store in which the first result of a creation stays: a Completed or Error
\* record is replaced by a Creating record only
TransitionKeep(store, vm_name, rec) ==
  [k \in DOMAIN store \cup {vm_name} |->
     IF k # vm_name THEN store[k]
     ELSE IF vm_name \in DOMAIN store /\ store[k].status \in {"completed", "error"}
             /\ rec.status \in {"completed", "error"} THEN store[k]
     ELSE rec]

\* vm_creation_status[vm_name] = rec: the whole record is replaced
Transition(store, vm_name, rec) ==
  [k \in DOMAIN store \cup {vm_name} |-> IF k = vm_name THEN rec ELSE store[k]]

\* vm_creation_status.get(vm_name, unknown)
GetRecord(store, vm_name) ==
  IF vm_name \in DOMAIN store THEN store[vm_name] ELSE UnknownRec(vm_name)

\* ------------------------------------------------------------------ state

Impls == {"api_server", "api_server1", "proxy_agent", "proxy_agent1"}

MaxTasks == 2
MaxPolls == 1
MaxThreads == 4
MaxHistory == 13

n_w1 == <<"w", "1">>
n_bad == <<"a", ";">>
v_1G == <<"1", "G">>
w_image == <<"i", "m", "a", "g", "e">>

VARIABLES
  impl,                \* which of the servers is running
  vm_creation_status,  \* the lifecycle map (proxy_agent1: vm_status)
  tasks,               \* the creation tasks in flight (asyncio tasks or threads)
  ready,               \* FIFO of callbacks and requests waiting for their turn
  started,             \* names a caller has been answered status=started for
  overlap,             \* names whose latest creation was dispatched while another
                       \* creation of the same name was in flight
  invoked,             \* the invocations handed to the executor by the last step
  conversation_histories, \* session id -> the roles of the stored messages
  response             \* the last step: the handler that ran and its answer

vars == <<impl, vm_creation_status, tasks, ready, started, overlap, invoked,
          conversation_histories, response>>

TaskIds == 1..MaxTasks

\* the task slots of the run
Slots == DOMAIN tasks

\* A creation task: its position, the name it creates, and what it holds (arg:
\* the config, then the command it waits for). A finished task frees its slot.
IdleTask == [pc |-> "idle", name |-> <<>>, arg |-> <<>>]

NewTask(vm_name, arg) == [pc |-> "scheduled", name |-> vm_name, arg |-> arg]

NoResponse ==
  [handler |-> "", t |-> 0, command |-> <<>>, name |-> <<>>, success |-> FALSE,
   status |-> "", error |-> "", outcome |-> "", rec |-> UnknownRec(<<>>), after |-> FALSE,
   text |-> <<>>, candidates |-> <<>>, results |-> <<>>]

\* the answer of a request handler
Answer(handler, command, vm_name, success, status, error) ==
  [NoResponse EXCEPT !.handler = handler, !.command = command, !.name = vm_name,
                     !.success = success, !.status = status, !.error = error]

\* a step of creation task t: for a step that writes the record of its name, the
\* record the name had before; for the info fetch, how it ended
TaskStep(handler, t, vm_name, outcome, before) ==
  [NoResponse EXCEPT !.handler = handler, !.t = t, !.name = vm_name,
                     !.outcome = outcome, !.rec = before]

Active(t) == tasks[t].pc # "idle"

\* the asyncio loop is inside a callback that has not reached its next await
LoopBusy == \E t \in Slots : tasks[t].pc = "validating"

HasFreeTask == \E t \in Slots : tasks[t].pc = "idle"

\* the first unused task slot
FreeTask == CHOOSE t \in Slots : tasks[t].pc = "idle" /\ \A u \in 1..(t - 1) : tasks[u].pc # "idle"

Init ==
  /\ impl \in Impls
  /\ vm_creation_status = <<>>
  /\ tasks = [t \in TaskIds |-> IdleTask]
  /\ ready = <<>>
  /\ started = {}
  /\ overlap = {}
  /\ invoked = <<>>
  /\ conversation_histories = <<>>
  /\ response = NoResponse

\* asyncio.create_task / threading.Thread(...).start(): the task exists but has
\* not run yet. On the asyncio server its first step is appended to the loop's
\* ready queue.
SpawnCreation(vm_name, arg) ==
  /\ tasks' = [tasks EXCEPT ![FreeTask] = NewTask(vm_name, arg)]
  /\ ready' = IF impl = "api_server"
              THEN Append(ready, [kind |-> "task", t |-> FreeTask, name |-> vm_name, after |-> FALSE])
              ELSE ready
  /\ overlap' = IF \E u \in Slots : Active(u) /\ tasks[u].name = vm_name
                THEN overlap \cup {vm_name} ELSE overlap \ {vm_name}

\* the task returns: its slot is free again
EndTask(t) ==
  /\ tasks' = [tasks EXCEPT ![t] = IdleTask]
  /\ UNCHANGED overlap

\* ----------------------------------------- api_server.py: creation tasks

\* a dict as the sequence of its (key, value) pairs in insertion order
DictKeys(d) == {d[i][1] : i \in 1..Len(d)}

DictSet(d, k, v) ==
  IF k \in DictKeys(d)
  THEN [i \in 1..Len(d) |-> IF d[i][1] = k THEN <<k, v>> ELSE d[i]]
  ELSE Append(d, <<k, v>>)

\* allowed_params of async_create_vm_background and api_server1.create_vm
allowed_params(key) ==
  IF key = w_mem \/ key = w_memory THEN f_memory
  ELSE IF key = w_disk THEN f_disk
  ELSE IF key = w_cpus THEN f_cpus
  ELSE <<>>

\* for key, value in config.items(): if key in allowed_params and value: extend
RECURSIVE allowed_options(_)
allowed_options(config) ==
  IF config = <<>> THEN <<>>
  ELSE LET key == Head(config)[1] value == Head(config)[2] IN
    (IF allowed_params(key) # <<>> /\ value # <<>>
     THEN <<allowed_params(key), value>> ELSE <<>>) \o allowed_options(Tail(config))

launch_command(vm_name, config) ==
  <<w_multipass, w_launch, f_name, vm_name>> \o allowed_options(config)

info_command(vm_name) == <<w_multipass, w_info, vm_name, f_format, w_json>>

\* what the awaited launch can give the task: an outcome of run_multipass_command,
\* or an exception out of the await itself
LaunchOutcomes == ExecOutcomes \cup {"Raise"}

\* what the info fetch can give: parsable output, unparsable output (json.loads
\* raises), an error result, or an exception out of the await
InfoOutcomes == {"Json", "BadJson", "Error", "Raise"}

\* line 380: the task's first step on the loop writes the Creating record
task_begin ==
  /\ impl = "api_server"
  /\ ~LoopBusy
  /\ ready # <<>>
  /\ Head(ready).kind = "task"
  /\ LET t == Head(ready).t IN
       /\ vm_creation_status' =
            Transition(vm_creation_status, tasks[t].name, CreatingRec(tasks[t].name))
       /\ tasks' = [tasks EXCEPT ![t].pc = "validating"]
       /\ response' = TaskStep("task_begin", t, tasks[t].name, "", GetRecord(vm_creation_status, tasks[t].name))
  /\ ready' = Tail(ready)
  /\ invoked' = <<>>
  /\ UNCHANGED <<impl, conversation_histories, started, overlap>>

\* lines 382-397: the name check, then the launch is handed to the worker pool
task_validate(t) ==
  /\ impl = "api_server"
  /\ tasks[t].pc = "validating"
  /\ IF ~valid_vm_name(tasks[t].name)
     THEN /\ vm_creation_status' =
               Transition(vm_creation_status, tasks[t].name, InvalidNameRec)
          /\ EndTask(t)
          /\ response' = TaskStep("task_end", t, tasks[t].name, "", GetRecord(vm_creation_status, tasks[t].name))
     ELSE /\ tasks' = [tasks EXCEPT ![t].pc = "launching",
                                    ![t].arg = launch_command(tasks[t].name, tasks[t].arg)]
          /\ response' = TaskStep("task_validate", t, tasks[t].name, "", NoResponse.rec)
          /\ UNCHANGED <<vm_creation_status, overlap>>
  /\ invoked' = <<>>
  /\ UNCHANGED <<impl, conversation_histories, ready, started>>

\* the record written when the launch did not succeed (lines 399-404, 430-435)
launch_failed_rec(outcome) == ErrorRec

\* lines 397-410: the launch has returned; on an error the record becomes Error,
\* otherwise the info fetch is handed to the worker pool
task_launch_return(t, outcome) ==
  /\ impl = "api_server"
  /\ ~LoopBusy
  /\ tasks[t].pc = "launching"
  /\ invoked' = IF outcome = "Raise" THEN <<>>
                ELSE <<Invocation("run_multipass_command", SetBinary(tasks[t].arg), outcome)>>
  /\ IF outcome = "Success"
     THEN /\ tasks' = [tasks EXCEPT ![t].pc = "fetching", ![t].arg = info_command(tasks[t].name)]
          /\ response' = TaskStep("task_launch_return", t, tasks[t].name, "", NoResponse.rec)
          /\ UNCHANGED <<vm_creation_status, overlap>>
     ELSE /\ vm_creation_status' =
               Transition(vm_creation_status, tasks[t].name, launch_failed_rec(outcome))
          /\ EndTask(t)
          /\ response' = TaskStep("task_end", t, tasks[t].name, "", GetRecord(vm_creation_status, tasks[t].name))
  /\ UNCHANGED <<impl, conversation_histories, ready, started>>

\* an info fetch that failed writes nothing: the record stays as it was
info_rec_stuck(vm_name, outcome) ==
  IF outcome = "Json" THEN CompletedInfoRec(vm_name) ELSE CreatingRec(vm_name)

\* an info fetch that failed is recorded as a failed creation
info_rec_error(vm_name, outcome) ==
  IF outcome = "Json" THEN CompletedInfoRec(vm_name) ELSE ErrorRec

\* lines 411-428: the record written after the info fetch
info_rec(vm_name, outcome) ==
  IF outcome = "Json" THEN CompletedInfoRec(vm_name) ELSE DegradedRec(vm_name)

\* lines 410-428: the info fetch has returned
task_info_return(t, outcome) ==
  /\ impl = "api_server"
  /\ ~LoopBusy
  /\ tasks[t].pc = "fetching"
  /\ invoked' = IF outcome = "Raise" THEN <<>>
                ELSE <<Invocation("run_multipass_command", SetBinary(tasks[t].arg),
                                  IF outcome = "Error" THEN "NonZeroExit" ELSE "Success")>>
  /\ vm_creation_status' =
       Transition(vm_creation_status, tasks[t].name, info_rec(tasks[t].name, outcome))
  /\ EndTask(t)
  /\ response' = TaskStep("task_info_end", t, tasks[t].name, outcome, GetRecord(vm_creation_status, tasks[t].name))
  /\ UNCHANGED <<impl, conversation_histories, ready, started>>

\* POST /vms/create-async (lines 529-541)
create_vm_async(vm_name, config) ==
  /\ impl = "api_server"
  /\ ~LoopBusy
  /\ IF ~valid_vm_name(vm_name)
     THEN /\ response' = Answer("create_vm_async", <<>>, vm_name, FALSE, "", "InvalidResourceName")
          /\ UNCHANGED <<tasks, ready, overlap, started>>
     ELSE /\ HasFreeTask
          /\ SpawnCreation(vm_name, config)
          /\ started' = started \cup {vm_name}
          /\ response' = Answer("create_vm_async", <<>>, vm_name, TRUE, "started", "")
  /\ invoked' = <<>>
  /\ UNCHANGED <<impl, conversation_histories, vm_creation_status>>

\* ------------------------------------------------------- status polling

Polls == {i \in 1..Len(ready) : ready[i].kind = "poll"}

\* a GET /vms/status/{vm_name} request arrives; after: the caller has already
\* been answered status=started for this name
poll_arrives(vm_name) ==
  /\ Cardinality(Polls) < MaxPolls
  /\ ready' = Append(ready, [kind |-> "poll", t |-> 0, name |-> vm_name,
                            after |-> vm_name \in started])
  /\ invoked' = <<>>
  /\ response' = NoResponse
  /\ UNCHANGED <<impl, conversation_histories, vm_creation_status, tasks, started, overlap>>

\* api_server.get_vm_creation_status (lines 543-549), api_server1 (104-106),
\* proxy_agent1.get_vm_status (359-361)
get_vm_creation_status ==
  /\ ~LoopBusy
  /\ ready # <<>>
  /\ Head(ready).kind = "poll"
  /\ response' = [NoResponse EXCEPT !.handler = "get_vm_creation_status",
                                    !.name = Head(ready).name,
                                    !.rec = GetRecord(vm_creation_status, Head(ready).name),
                                    !.after = Head(ready).after]
  /\ ready' = Tail(ready)
  /\ invoked' = <<>>
  /\ UNCHANGED <<impl, conversation_histories, vm_creation_status, tasks, started, overlap>>

\* ------------------------------------ api_server.py: the command pipeline

\* the launch branch's option loop (lines 270-289); Python's i is idx - 1
RECURSIVE parse_launch_args(_, _, _, _)
parse_launch_args(args, idx, vm_name, vm_config) ==
  IF idx > Len(args) THEN [vm_name |-> vm_name, vm_config |-> vm_config]
  ELSE IF args[idx] = f_name /\ idx + 1 <= Len(args)
    THEN parse_launch_args(args, idx + 2, args[idx + 1], vm_config)
  ELSE IF StartsWith(args[idx], dd) /\ idx + 1 <= Len(args)
    THEN LET key == From(args[idx], 2) value == args[idx + 1] IN
      parse_launch_args(args, idx + 2, vm_name,
        IF key = w_cpus \/ key = w_disk \/ key = w_memory THEN DictSet(vm_config, key, value)
        ELSE IF key = w_disk_size THEN DictSet(vm_config, w_disk, value)
        ELSE vm_config)
  ELSE parse_launch_args(args, idx + 1, vm_name, vm_config)

Plan(kind, error, vm_name, vm_config, argv) ==
  [kind |-> kind, error |-> error, vm_name |-> vm_name, vm_config |-> vm_config, argv |-> argv]

\* execute_vm_action_direct up to its first await (lines 252-369): what the
\* command is turned into. kind: reject (answered without executing), spawn (a
\* creation task), run (one invocation), delete (delete, then purge).
execute_vm_action_direct(command) ==
  LET sp == shlex_split(normalize_multipass_command(command))
      args == IF sp.args # <<>> /\ sp.args[1] = w_multipass THEN Tail(sp.args) ELSE sp.args
  IN
  IF ~sp.ok THEN Plan("reject", "InternalError", <<>>, <<>>, <<>>)
  ELSE IF args = <<>> THEN Plan("reject", "InvalidCommand", <<>>, <<>>, <<>>)
  ELSE IF args[1] = w_launch THEN
    LET pl == parse_launch_args(args, 2, <<>>, <<>>) IN
    IF pl.vm_name = <<>> THEN Plan("reject", "MissingResourceName", <<>>, <<>>, <<>>)
    ELSE Plan("spawn", "", pl.vm_name, pl.vm_config, <<>>)
  ELSE IF args[1] = w_start \/ args[1] = w_stop THEN
    IF Len(args) < 2 THEN Plan("reject", "MissingResourceName", <<>>, <<>>, <<>>)
    ELSE Plan("run", "", args[2], <<>>, <<w_multipass>> \o args)
  ELSE IF args[1] = w_delete THEN
    IF Len(args) < 2 THEN Plan("reject", "MissingResourceName", <<>>, <<>>, <<>>)
    ELSE Plan("delete", "", args[2], <<>>, <<w_multipass, w_delete, args[2]>>)
  ELSE IF args[1] = w_purge THEN Plan("run", "", <<>>, <<>>, <<w_multipass, w_purge>>)
  ELSE Plan("run", "", <<>>, <<>>, <<w_multipass>> \o args)

purge_command == <<w_multipass, w_purge>>

\* the invocations a plan makes, given how the first and the second one end
plan_invocations(plan, o1, o2) ==
  IF plan.kind = "run" THEN <<Invocation("run_multipass_command", SetBinary(plan.argv), o1)>>
  ELSE IF plan.kind = "delete" THEN
    IF o1 # "Success" THEN <<Invocation("run_multipass_command", SetBinary(plan.argv), o1)>>
    ELSE <<Invocation("run_multipass_command", SetBinary(plan.argv), o1), Invocation("run_multipass_command", SetBinary(purge_command), o2)>>
  ELSE <<>>

\* the result execute_vm_action_direct returns for a plan
plan_answer(message, plan, o1, o2) ==
  IF plan.kind = "reject" THEN Answer("chat_endpoint", message, <<>>, FALSE, "", plan.error)
  ELSE IF plan.kind = "spawn" THEN Answer("chat_endpoint", message, plan.vm_name, TRUE, "started", "")
  ELSE IF o1 # "Success" THEN Answer("chat_endpoint", message, plan.vm_name, FALSE, "", o1)
  ELSE Answer("chat_endpoint", message, plan.vm_name, TRUE, "success", "")

\* chat_endpoint lines 602-605: a message that is itself a command, and the
\* command handed to execute_vm_action_direct
is_direct_command(message) == StartsWith(Strip(message), prefix_multipass)

direct_command(message) == Strip(From(Strip(message), Len(prefix_multipass)))

\* ----------------------------------------------------------- the inputs

VmNames == {n_w1, n_bad}
PollNames == {n_w1, n_bad, w_unknown}
Configs == {<<<<w_memory, v_1G>>, <<w_image, w_list>>, <<w_frob, v_1G>>>>}

Command(toks) == Join(<<w_multipass>> \o toks)

\* the messages sent to api_server's /chat
ChatMessages ==
  {Command(<<w_launch, f_name, n_w1>>),
   Command(<<w_launch, <<"-", "n">>, n_w1, f_memory, v_1G>>),
   Command(<<w_launch, f_name, n_bad>>),
   Command(<<w_launch>>),
   Command(<<w_launch, n_w1>>),
   Command(<<w_start, n_w1>>),
   Command(<<w_start, n_bad>>),
   Command(<<w_start>>),
   Command(<<w_stop, n_w1>>),
   Command(<<w_delete, n_w1>>),
   Command(<<w_delete>>),
   Command(<<w_purge>>),
   Command(<<w_info, n_w1>>),
   Command(<<w_info>>),
   Command(<<w_recover>>),
   Command(<<w_list>>),
   Command(<<w_frob, n_w1>>),
   Command(<<w_start, <<"'", "w">>>>)}

\* the commands found in the model output by proxy_agent1's chat
ChatCommands ==
  {Command(<<w_launch, f_name, n_w1>>),
   Command(<<w_launch>>),
   Command(<<w_start, n_w1>>),
   Command(<<w_start, n_bad>>),
   Command(<<w_start>>),
   Command(<<w_info>>),
   Command(<<w_list>>),
   Command(<<w_frob, n_w1>>),
   Join(<<w_start, n_w1>>),
   Join(<<w_frob, n_w1>>)}

\* toks with the tokens ins put after its first k tokens
InsertAt(toks, k, ins) == SubSeq(toks, 1, k) \o ins \o SubSeq(toks, k + 1, Len(toks))

\* a launch command that names its resource and its memory, and the same command
\* with an option the code does not know, without and with a value, put between
\* its options
base_launch == <<w_launch, f_name, n_w1, f_memory, v_1G>>

extra_flags == {<<dd \o w_frob>>, <<dd \o w_frob, v_1G>>}

FlagMessages ==
  {Command(base_launch)}
    \cup {Command(InsertAt(base_launch, k, f)) : k \in {1, 3, 5}, f \in extra_flags}

\* ------------------------------------- api_server.py: the request handlers

\* execute_vm_action_direct's plan for each message of ChatMessages
direct_plans ==
  [m \in ChatMessages \cup FlagMessages |-> execute_vm_action_direct(direct_command(m))]

\* how the invocations of a plan can end: none for a plan that executes nothing,
\* the second one only after a delete that succeeded
PlanOutcomes(kind) ==
  IF kind = "run" THEN ExecOutcomes \X {"Success"}
  ELSE IF kind = "delete" THEN (ExecErrors \X {"Success"}) \cup ({"Success"} \X ExecOutcomes)
  ELSE {<<"Success", "Success">>}

\* POST /chat with a message that is itself a command (lines 595-624)
chat_endpoint(message, o1, o2) ==
  /\ impl = "api_server"
  /\ ~LoopBusy
  /\ is_direct_command(message)
  /\ LET plan == direct_plans[message] IN
       /\ IF plan.kind = "spawn"
          THEN /\ HasFreeTask
               /\ SpawnCreation(plan.vm_name, plan.vm_config)
               /\ started' = started \cup {plan.vm_name}
          ELSE UNCHANGED <<tasks, ready, overlap, started>>
       /\ invoked' = plan_invocations(plan, o1, o2)
       /\ response' = plan_answer(message, plan, o1, o2)
  /\ UNCHANGED <<impl, conversation_histories, vm_creation_status>>

\* POST /vms/start, POST /vms/stop (lines 475-485): a failure is raised as an
\* HTTP error by run_multipass_command_old
start_stop_vm(action, vm_name, o1) ==
  /\ impl = "api_server"
  /\ ~LoopBusy
  /\ invoked' = <<Invocation("run_multipass_command_old", SetBinary(<<w_multipass, action, vm_name>>), o1)>>
  /\ response' = Answer("start_stop_vm", <<>>, vm_name, o1 = "Success",
                        IF o1 = "Success" THEN "success" ELSE "", IF o1 = "Success" THEN "" ELSE o1)
  /\ UNCHANGED <<impl, conversation_histories, vm_creation_status, tasks, ready, started, overlap>>

\* a delete that also forgets the lifecycle record of the name
delete_vm_forget(vm_name, o1, o2) ==
  /\ impl = "api_server"
  /\ ~LoopBusy
  /\ invoked' = <<Invocation("run_multipass_command_old", SetBinary(<<w_multipass, w_delete, vm_name>>), o1)>>
  /\ response' = Answer("delete_vm", <<>>, vm_name, o1 = "Success", "", "")
  /\ vm_creation_status' =
       [k \in DOMAIN vm_creation_status \ {vm_name} |-> vm_creation_status[k]]
  /\ UNCHANGED <<impl, conversation_histories, tasks, ready, started, overlap>>

\* DELETE /vms/delete (lines 487-492): delete, then purge; either failure raises
delete_vm(vm_name, o1, o2) ==
  /\ impl = "api_server"
  /\ ~LoopBusy
  /\ invoked' = IF o1 # "Success"
                THEN <<Invocation("run_multipass_command_old", SetBinary(<<w_multipass, w_delete, vm_name>>), o1)>>
                ELSE <<Invocation("run_multipass_command_old", SetBinary(<<w_multipass, w_delete, vm_name>>), o1),
                       Invocation("run_multipass_command_old", SetBinary(purge_command), o2)>>
  /\ response' = LET ok == o1 = "Success" /\ o2 = "Success" IN
       Answer("delete_vm", <<>>, vm_name, ok, IF ok THEN "success" ELSE "",
              IF o1 # "Success" THEN o1 ELSE IF o2 # "Success" THEN o2 ELSE "")
  /\ UNCHANGED <<impl, conversation_histories, vm_creation_status, tasks, ready, started, overlap>>

\* create_vm lines 514-518: every key of the request becomes an option, whether
\* it is one of cpus, memory, disk or not
RECURSIVE sync_options(_)
sync_options(config) ==
  IF config = <<>> THEN <<>>
  ELSE <<dd \o Head(config)[1], Head(config)[2]>> \o sync_options(Tail(config))

\* POST /vms/create (lines 505-527): the name check, then the launch is run and
\* awaited; a failure is answered as an HTTP error
create_vm(vm_name, config, o1) ==
  /\ impl = "api_server"
  /\ ~LoopBusy
  /\ IF ~valid_vm_name(vm_name)
     THEN /\ invoked' = <<>>
          /\ response' = Answer("api_create_vm", <<>>, vm_name, FALSE, "", "InvalidResourceName")
     ELSE /\ invoked' = <<Invocation("run_multipass_command_old", SetBinary(<<w_multipass, w_launch, f_name, vm_name>>
                                                \o sync_options(config)), o1)>>
          /\ response' = Answer("api_create_vm", <<>>, vm_name, o1 = "Success",
                                IF o1 = "Success" THEN "created" ELSE "",
                                IF o1 = "Success" THEN "" ELSE o1)
  /\ UNCHANGED <<impl, conversation_histories, vm_creation_status, tasks, ready, started, overlap>>

\* -------------------------------------------- api_server1.py: creations

\* config.get(key), <<>> when absent
RECURSIVE DictGet(_, _)
DictGet(d, k) ==
  IF d = <<>> THEN <<>>
  ELSE IF Head(d)[1] = k THEN Head(d)[2]
  ELSE DictGet(Tail(d), k)

\* create_vm lines 82-93: the launch command, with the image appended
api1_command(vm_name, config) ==
  launch_command(vm_name, config) \o
    (IF DictGet(config, w_image) # <<>> THEN <<DictGet(config, w_image)>> ELSE <<>>)

\* POST /vms/create (lines 76-102): the command is built and a thread started
api1_create_vm(vm_name, config) ==
  /\ impl = "api_server1"
  /\ IF vm_name = <<>>
     THEN /\ response' = Answer("create_vm", <<>>, vm_name, FALSE, "", "MissingResourceName")
          /\ UNCHANGED <<tasks, ready, overlap, started>>
     ELSE /\ HasFreeTask
          /\ SpawnCreation(vm_name, api1_command(vm_name, config))
          /\ started' = started \cup {vm_name}
          /\ response' = Answer("create_vm", <<>>, vm_name, TRUE, "started", "")
  /\ invoked' = <<>>
  /\ UNCHANGED <<impl, conversation_histories, vm_creation_status>>

\* async_create_vm line 69 and proxy_agent1.async_launch_vm line 144: the
\* thread's first write
thread_begin(t) ==
  /\ impl \in {"api_server1", "proxy_agent1"}
  /\ tasks[t].pc = "scheduled"
  /\ vm_creation_status' =
       Transition(vm_creation_status, tasks[t].name, CreatingRec(tasks[t].name))
  /\ tasks' = [tasks EXCEPT ![t].pc = "launching"]
  /\ invoked' = <<>>
  /\ response' = TaskStep("task_begin", t, tasks[t].name, "", GetRecord(vm_creation_status, tasks[t].name))
  /\ UNCHANGED <<impl, conversation_histories, ready, started, overlap>>

\* async_create_vm lines 70-74: run_multipass_command returns or raises
api1_thread_finish(t, outcome) ==
  /\ impl = "api_server1"
  /\ tasks[t].pc = "launching"
  /\ invoked' = <<Invocation("api1_run_multipass_command", SetBinary(tasks[t].arg), outcome)>>
  /\ vm_creation_status' =
       Transition(vm_creation_status, tasks[t].name,
                  IF outcome = "Success" THEN CompletedRec(tasks[t].name) ELSE ErrorRec)
  /\ EndTask(t)
  /\ response' = TaskStep("task_end", t, tasks[t].name, "", GetRecord(vm_creation_status, tasks[t].name))
  /\ UNCHANGED <<impl, conversation_histories, ready, started>>
\* --------------------------------------- proxy_agent1.py: text functions

WordChars == Letters \cup Digits \cup {"_"}

LowerChar(c) == IF c = "G" THEN "g" ELSE IF c = "M" THEN "m" ELSE c

\* str.lower
Lower(s) == [i \in 1..Len(s) |-> LowerChar(s[i])]

\* p in s
RECURSIVE Contains(_, _)
Contains(s, p) ==
  IF Len(s) < Len(p) THEN FALSE
  ELSE IF StartsWith(s, p) THEN TRUE
  ELSE Contains(Tail(s), p)

multipass_keywords ==
  {<<"l", "a", "u", "n", "c", "h">>,
   <<"c", "r", "e", "a", "t", "e">>,
   <<"s", "t", "a", "r", "t">>,
   <<"s", "t", "o", "p">>,
   <<"d", "e", "l", "e", "t", "e">>,
   <<"r", "e", "m", "o", "v", "e">>,
   <<"l", "i", "s", "t">>,
   <<"i", "n", "f", "o">>,
   <<"s", "h", "e", "l", "l">>,
   <<"e", "x", "e", "c">>,
   <<"m", "o", "u", "n", "t">>,
   <<"u", "m", "o", "u", "n", "t">>,
   <<"t", "r", "a", "n", "s", "f", "e", "r">>,
   <<"c", "o", "p", "y">>,
   <<"s", "u", "s", "p", "e", "n", "d">>,
   <<"r", "e", "s", "t", "a", "r", "t">>,
   <<"r", "e", "c", "o", "v", "e", "r">>,
   <<"p", "u", "r", "g", "e">>,
   <<"f", "i", "n", "d">>,
   <<"g", "e", "t">>,
   <<"s", "e", "t">>}

multipass_patterns ==
  {<<"-", "n", " ">>,
   <<"-", "-", "n", "a", "m", "e", " ">>,
   <<"-", "c", " ">>,
   <<"-", "-", "c", "p", "u", "s", " ">>,
   <<"-", "m", " ">>,
   <<"-", "-", "m", "e", "m", "o", "r", "y", " ">>,
   <<"-", "d", " ">>,
   <<"-", "-", "d", "i", "s", "k", " ">>}

\* lines 65-80
is_potential_multipass_command(cmd) ==
  LET c == Lower(Strip(cmd)) IN
    \/ \E keyword \in multipass_keywords : StartsWith(c, keyword \o <<SP>>) \/ c = keyword
    \/ \E pattern \in multipass_patterns : Contains(c, pattern)

\* index of the first c in s at or after position i, 0 if none
RECURSIVE IndexFrom(_, _, _)
IndexFrom(s, c, i) ==
  IF i > Len(s) THEN 0 ELSE IF s[i] = c THEN i ELSE IndexFrom(s, c, i + 1)

\* re.findall(r"'([^']+)'", s): the non-empty parts between single quotes
RECURSIVE find_quoted(_, _)
find_quoted(s, i) ==
  LET a == IndexFrom(s, "'", i)
      b == IF a = 0 THEN 0 ELSE IndexFrom(s, "'", a + 1)
  IN IF a = 0 \/ b = 0 THEN <<>>
     ELSE IF b = a + 1 THEN find_quoted(s, a + 1)
     ELSE <<SubSeq(s, a + 1, b - 1)>> \o find_quoted(s, b + 1)

\* lines 49-63
is_multipass_command(cmd0) ==
  LET cmd == Strip(cmd0)
      matches == find_quoted(cmd, 1)
  IN \/ StartsWith(cmd, prefix_multipass)
     \/ \E i \in 1..Len(matches) : is_potential_multipass_command(Strip(matches[i]))
     \/ is_potential_multipass_command(cmd)

f_cpu == <<"-", "-", "c", "p", "u">>
multipass_launch == w_multipass \o <<SP>> \o w_launch
w_jammy == <<"j", "a", "m", "m", "y">>
w_noble == <<"n", "o", "b", "l", "e">>
r_2204 == <<"2", "2", ".", "0", "4">>
r_2404 == <<"2", "4", ".", "0", "4">>
r_2004 == <<"2", "0", ".", "0", "4">>
w_ubuntu_ == <<"u", "b", "u", "n", "t", "u", "-">>

\* re.sub(r"--cpu\b", "--cpus", s)
RECURSIVE sub_cpu(_)
sub_cpu(s) ==
  IF s = <<>> THEN <<>>
  ELSE IF StartsWith(s, f_cpu) /\ (Len(s) = Len(f_cpu) \/ s[Len(f_cpu) + 1] \notin WordChars)
    THEN f_cpus \o sub_cpu(From(s, Len(f_cpu)))
  ELSE <<Head(s)>> \o sub_cpu(Tail(s))

\* the lookahead \s+\d{2}\.\d{2} | \s+jammy | \s+noble at the start of s
names_release(s) ==
  LET r == LStrip(s) IN
    /\ s # <<>> /\ Head(s) \in Whitespace
    /\ \/ StartsWith(r, w_jammy)
       \/ StartsWith(r, w_noble)
       \/ /\ Len(r) >= 5
          /\ r[1] \in Digits /\ r[2] \in Digits /\ r[3] = "." /\ r[4] \in Digits /\ r[5] \in Digits

\* lines 90-102
multipass_command_fix(cmd0) ==
  LET c1 == sub_cpu(cmd0)
      c2 == IF StartsWith(c1, multipass_launch) /\ ~names_release(From(c1, Len(multipass_launch)))
            THEN ReplaceFirst(c1, multipass_launch, multipass_launch \o <<SP>> \o r_2204)
            ELSE c1
      c3 == Replace(c2, multipass_launch \o <<SP>> \o w_ubuntu_ \o r_2204, multipass_launch \o <<SP>> \o r_2204)
      c4 == Replace(c3, multipass_launch \o <<SP>> \o w_ubuntu_ \o r_2404, multipass_launch \o <<SP>> \o r_2404)
  IN Replace(c4, multipass_launch \o <<SP>> \o w_ubuntu_ \o r_2004, multipass_launch \o <<SP>> \o r_2004)

\* the leading run of non-whitespace characters
RECURSIVE NonSpaceRun(_)
NonSpaceRun(s) ==
  IF s = <<>> \/ Head(s) \in Whitespace THEN <<>> ELSE <<Head(s)>> \o NonSpaceRun(Tail(s))

\* re.search(r"--name\s+([^\s]+)", s): group 1, or <<>> when there is no match
RECURSIVE search_name(_)
search_name(s) ==
  IF Len(s) < Len(f_name) THEN <<>>
  ELSE LET rest == From(s, Len(f_name)) IN
    IF StartsWith(s, f_name) /\ rest # <<>> /\ Head(rest) \in Whitespace /\ LStrip(rest) # <<>>
    THEN NonSpaceRun(LStrip(rest))
    ELSE search_name(Tail(s))

\* lines 104-126, with the binary found: the command gets its prefix and the
\* first "multipass" becomes the binary's path
normalize_command(cmd0) ==
  LET cmd == Strip(cmd0)
      matches == find_quoted(cmd, 1)
      hits == {i \in 1..Len(matches) : is_potential_multipass_command(Strip(matches[i]))}
      c1 == IF "'" \in {cmd[i] : i \in 1..Len(cmd)} /\ ~StartsWith(cmd, prefix_multipass) /\ hits # {}
            THEN Strip(matches[CHOOSE i \in hits : \A j \in hits : i <= j])
            ELSE cmd
      c2 == IF StartsWith(c1, prefix_multipass) THEN c1 ELSE prefix_multipass \o c1
  IN IF ~is_multipass_command(cmd) THEN cmd
     ELSE ReplaceFirst(c2, w_multipass, mp_path)


\* execute_multipass_command (lines 157-206): the result, and the invocation
\* made, for a way the run can end
pa1_execute(command, outcome) ==
  LET sp == shlex_split(normalize_command(command)) IN
  IF ~is_multipass_command(command)
    THEN [returncode |-> -1, stderr |-> "NotMultipass", invoked |-> <<>>]
  ELSE IF outcome = "ToolNotFound"
    THEN [returncode |-> -127, stderr |-> "", invoked |-> <<Invocation("pa1_run", sp.args, outcome)>>]
  ELSE IF ~sp.ok
    THEN [returncode |-> -3, stderr |-> "InternalError", invoked |-> <<>>]
  ELSE [returncode |-> IF outcome = "Success" THEN 0
                       ELSE IF outcome = "Timeout" THEN -2
                       ELSE IF outcome = "InternalError" THEN -3 ELSE 1,
        stderr |-> IF outcome = "Success" THEN "" ELSE outcome,
        invoked |-> <<Invocation("pa1_run", sp.args, outcome)>>]

\* launch commands that name a release: by its long spelling, after the options,
\* and by its short spelling after the verb
ReleaseCommands ==
  {Command(<<w_launch, w_ubuntu_ \o r_2204, f_name, n_w1>>),
   Command(<<w_launch, f_name, n_w1, w_jammy>>),
   Command(<<w_launch, r_2404, f_name, n_w1>>)}

\* chat lines 300-307: what is decided about a command before anything runs
pa1_classify(cmd) ==
  LET cmd_fixed == multipass_command_fix(cmd)
      match == search_name(cmd_fixed)
  IN [is_multipass |-> is_multipass_command(cmd),
      cmd_fixed |-> cmd_fixed,
      launch |-> StartsWith(cmd_fixed, multipass_launch),
      vm_name |-> IF match # <<>> THEN match ELSE w_unknown]

\* pa1_classify for each command of ChatCommands, and execute_multipass_command's
\* result for each corrected command and outcome
classified == [c \in ChatCommands \cup ReleaseCommands |-> pa1_classify(c)]

executed ==
  [c \in {classified[x].cmd_fixed : x \in DOMAIN classified}, o \in ExecOutcomes |-> pa1_execute(c, o)]

\* async_launch_vm lines 145-155: the command has been executed
pa1_thread_finish(t, outcome) ==
  /\ impl = "proxy_agent1"
  /\ tasks[t].pc = "launching"
  /\ LET result == executed[tasks[t].arg, outcome] IN
       /\ invoked' = result.invoked
       /\ vm_creation_status' =
            Transition(vm_creation_status, tasks[t].name,
                       IF result.returncode = 0 THEN CompletedRec(tasks[t].name) ELSE ErrorRec)
  /\ EndTask(t)
  /\ response' = TaskStep("task_end", t, tasks[t].name, "", GetRecord(vm_creation_status, tasks[t].name))
  /\ UNCHANGED <<impl, conversation_histories, ready, started>>

\* ------------------- proxy_agent.py, proxy_agent1.py: conversation histories

SessionIds == {"s1"}

\* a stored message, by its role
system_message == "system"
user_message == "user"
assistant_message == "assistant"

\* proxy_agent lines 263-277, proxy_agent1 lines 281-285: the list stored for
\* the session, created with the system message on the session's first call
session_history(store, session_id) ==
  IF session_id \in DOMAIN store THEN store[session_id] ELSE <<system_message>>

\* history.append(user): the stored list itself grows by the user message
user_appended(store, session_id) == Append(session_history(store, session_id), user_message)

\* if len(history) > 10: history = [history[0]] + history[-9:], a new list that
\* the map does not hold yet
trimmed(history) ==
  IF Len(history) > 10
  THEN <<history[1]>> \o SubSeq(history, Len(history) - 8, Len(history))
  ELSE history

\* conversation_histories[session_id] = history
StoreHistory(store, session_id, history) ==
  [k \in DOMAIN store \cup {session_id} |-> IF k = session_id THEN history ELSE store[k]]

\* the model has replied: the reply is appended to the list sent to the model
\* and that list is stored
history_replied(store, session_id) ==
  StoreHistory(store, session_id,
               Append(trimmed(user_appended(store, session_id)), assistant_message))

\* ollama_proxy.run has raised: the handler ends before the assignment, the map
\* holds the list the user message was appended to
history_failed(store, session_id) ==
  StoreHistory(store, session_id, user_appended(store, session_id))

\* proxy_agent.chat lines 252-309 and proxy_agent1.chat lines 274-291, ending
\* in an exception: no session id (400, lines 258/278), or the request to the
\* model failed (HTTPException 503/504 out of ollama_proxy.run)
chat_fails(session_id) ==
  /\ impl \in {"proxy_agent", "proxy_agent1"}
  /\ IF session_id = ""
     THEN /\ UNCHANGED conversation_histories
          /\ response' = [NoResponse EXCEPT !.handler = "chat_fails", !.error = "400"]
     ELSE /\ Len(session_history(conversation_histories, session_id)) < MaxHistory
          /\ conversation_histories' = history_failed(conversation_histories, session_id)
          /\ response' = [NoResponse EXCEPT !.handler = "chat_fails", !.error = "503"]
  /\ invoked' = <<>>
  /\ UNCHANGED <<impl, vm_creation_status, tasks, ready, started, overlap>>

\* chat, lines 298-321, for one command of the model output: a launch becomes
\* a creation thread, any other multipass command is executed at once
pa1_chat(session_id, cmd, outcome) ==
  /\ impl = "proxy_agent1"
  /\ Len(session_history(conversation_histories, session_id)) < MaxHistory
  /\ conversation_histories' = history_replied(conversation_histories, session_id)
  /\ LET c == classified[cmd] IN
     IF ~c.is_multipass
     THEN /\ response' = Answer("chat", cmd, <<>>, FALSE, "", "NotMultipass")
          /\ invoked' = <<>>
          /\ UNCHANGED <<tasks, ready, overlap, started>>
     ELSE IF c.launch
     THEN /\ HasFreeTask
          /\ SpawnCreation(c.vm_name, c.cmd_fixed)
          /\ started' = started \cup {c.vm_name}
          /\ response' = Answer("chat", cmd, c.vm_name, TRUE, "started", "")
          /\ invoked' = <<>>
     ELSE LET result == executed[c.cmd_fixed, outcome] IN
          /\ response' = Answer("chat", cmd, <<>>, result.returncode = 0,
                                IF result.returncode = 0 THEN "success" ELSE "",
                                IF result.returncode = -127 THEN "ToolNotFound" ELSE result.stderr)
          /\ invoked' = result.invoked
          /\ UNCHANGED <<tasks, ready, overlap, started>>
  /\ UNCHANGED <<impl, vm_creation_status>>

\* how a command's run can end: nothing runs for a launch or a rejected command
ChatOutcomes(cmd) ==
  IF classified[cmd].is_multipass /\ ~classified[cmd].launch THEN ExecOutcomes ELSE {"Success"}

\* ------------------------------- api_server.py: commands in the model's reply

\* the backtick, written ^ in the texts: a TLA+ string cannot hold the character
BT == "^"
NL == "\n"
fence == <<BT, BT, BT>>
w_bash == <<"b", "a", "s", "h">>

\* p starts at the 1-based position i of s
StartsAt(s, i, p) == i + Len(p) - 1 <= Len(s) /\ SubSeq(s, i, i + Len(p) - 1) = p

\* the first position from i on that holds no whitespace (Len(s) + 1 if none)
RECURSIVE SkipWs(_, _)
SkipWs(s, i) == IF i <= Len(s) /\ s[i] \in Whitespace THEN SkipWs(s, i + 1) ELSE i

\* the same for the characters of \w and of \S
RECURSIVE SkipWord(_, _)
SkipWord(s, i) == IF i <= Len(s) /\ s[i] \in WordChars THEN SkipWord(s, i + 1) ELSE i

RECURSIVE SkipNonSpace(_, _)
SkipNonSpace(s, i) ==
  IF i <= Len(s) /\ s[i] \notin Whitespace THEN SkipNonSpace(s, i + 1) ELSE i

\* the first position from i on where p starts, or 0
RECURSIVE Find(_, _, _)
Find(s, p, i) ==
  IF i + Len(p) - 1 > Len(s) THEN 0
  ELSE IF StartsAt(s, i, p) THEN i
  ELSE Find(s, p, i + 1)

NoMatch == [found |-> FALSE, group |-> <<>>]
Match(group) == [found |-> TRUE, group |-> group]

\* the patterns of lines 189-194: <lead> \s* multipass \s+ (.*?) \s* <close>,
\* the first \s* only where gap is set
md_patterns ==
  <<[lead |-> fence, gap |-> FALSE, close |-> fence],
    [lead |-> fence \o w_bash, gap |-> TRUE, close |-> fence],
    [lead |-> fence, gap |-> TRUE, close |-> fence],
    [lead |-> <<BT>>, gap |-> FALSE, close |-> <<BT>>]>>

\* a match of the pattern that starts at position i: the lazy group ends before
\* the whitespace in front of the first close after it
md_match_at(text, i, pat) ==
  LET j0 == i + Len(pat.lead)
      j == IF pat.gap THEN SkipWs(text, j0) ELSE j0
      k == j + Len(w_multipass)
      c0 == SkipWs(text, k)
      q == Find(text, pat.close, c0)
  IN IF StartsAt(text, i, pat.lead) /\ StartsAt(text, j, w_multipass) /\ c0 > k /\ q # 0
     THEN Match(RStrip(SubSeq(text, c0, q - 1)))
     ELSE NoMatch

\* re.search(pattern, text, re.DOTALL): the match at the leftmost position
RECURSIVE md_search(_, _, _)
md_search(text, pat, i) ==
  IF i > Len(text) THEN NoMatch
  ELSE IF md_match_at(text, i, pat).found THEN md_match_at(text, i, pat)
  ELSE md_search(text, pat, i + 1)

\* lines 196-201: the first pattern, in the order of the list, that matches
RECURSIVE first_pattern(_, _)
first_pattern(text, n) ==
  IF n > Len(md_patterns) THEN NoMatch
  ELSE IF md_search(text, md_patterns[n], 1).found THEN md_search(text, md_patterns[n], 1)
  ELSE first_pattern(text, n + 1)

\* text.split('\n')
RECURSIVE split_lines(_)
split_lines(s) ==
  LET q == Find(s, <<NL>>, 1) IN
  IF q = 0 THEN <<s>>
  ELSE <<SubSeq(s, 1, q - 1)>> \o split_lines(From(s, q))

\* lines 206-210: the line without the whitespace and the quotes around it
clean_line(line) ==
  LET s == Strip(line) IN
  IF s # <<>> /\ s[1] \in Quotes /\ s[Len(s)] = s[1] THEN SubSeq(s, 2, Len(s) - 1) ELSE s

\* lines 204-215: the first line that starts with the binary name and a space
RECURSIVE first_line(_)
first_line(lines) ==
  IF lines = <<>> THEN NoMatch
  ELSE IF StartsWith(clean_line(Head(lines)), prefix_multipass)
    THEN Match(Strip(From(clean_line(Head(lines)), Len(prefix_multipass))))
  ELSE first_line(Tail(lines))

\* one (?:\s+--?\w+(?:\s+\S+)?) at position i: the position after it, or 0
flag_group(s, i) ==
  LET a == SkipWs(s, i)
      b == IF StartsAt(s, a, dd) THEN a + 2 ELSE a + 1
      e == SkipWord(s, b)
      v == SkipWs(s, e)
  IN IF a = i \/ ~StartsAt(s, a, <<"-">>) \/ e = b THEN 0
     ELSE IF v > e /\ v <= Len(s) THEN SkipNonSpace(s, v)
     ELSE e

RECURSIVE flag_groups(_, _)
flag_groups(s, i) == IF flag_group(s, i) = 0 THEN i ELSE flag_groups(s, flag_group(s, i))

\* re.search(r"multipass\s+(\w+(?:\s+--?\w+(?:\s+\S+)?)*)", text), lines 218-222
RECURSIVE simple_search(_, _)
simple_search(text, i) ==
  LET k == i + Len(w_multipass)
      c0 == SkipWs(text, k)
      e == SkipWord(text, c0)
  IN IF i > Len(text) THEN NoMatch
     ELSE IF StartsAt(text, i, w_multipass) /\ c0 > k /\ e > c0
       THEN Match(Strip(SubSeq(text, c0, flag_groups(text, e) - 1)))
     ELSE simple_search(text, i + 1)

\* extract_multipass_command (lines 183-229): found = FALSE stands for None
extract_multipass_command(text) ==
  LET m == IF first_pattern(text, 1).found THEN first_pattern(text, 1)
           ELSE IF first_line(split_lines(text)).found THEN first_line(split_lines(text))
           ELSE simple_search(text, 1)
  IN IF m.found THEN Match(normalize_multipass_command(m.group)) ELSE NoMatch

\* ------------------------------ proxy_agent.py: commands in the model's reply

\* the length of the delimiter (three backticks, or one quote) at position i, or 0
delim_at(s, i) ==
  IF StartsAt(s, i, fence) THEN 3 ELSE IF i <= Len(s) /\ s[i] \in Quotes THEN 1 ELSE 0

\* the first position from i on where a delimiter starts, or 0
RECURSIVE first_delim(_, _)
first_delim(s, i) ==
  IF i > Len(s) THEN 0 ELSE IF delim_at(s, i) > 0 THEN i ELSE first_delim(s, i + 1)

\* re.findall of line 55-56 from position i on: a delimiter, the binary name and
\* everything up to the next delimiter, which must exist; the search goes on
\* after it
RECURSIVE findall_commands(_, _)
findall_commands(text, i) ==
  LET m == i + delim_at(text, i)
      d == first_delim(text, m + Len(w_multipass))
  IN IF i > Len(text) THEN <<>>
     ELSE IF delim_at(text, i) > 0 /\ StartsAt(text, m, w_multipass) /\ d # 0
       THEN <<SubSeq(text, m, d - 1)>> \o findall_commands(text, d + delim_at(text, d))
     ELSE findall_commands(text, i + 1)

\* extract_multipass_commands (lines 52-58)
extract_multipass_commands(text) ==
  LET found == findall_commands(text, 1) IN [n \in 1..Len(found) |-> Strip(found[n])]

\* the loop of parse_launch_command (lines 71-87) from the 1-based index i
RECURSIVE pa_launch_params(_, _, _)
pa_launch_params(args, i, params) ==
  IF i > Len(args) THEN params
  ELSE IF StartsWith(args[i], dd) THEN
    IF i + 1 <= Len(args) /\ ~StartsWith(args[i + 1], dd)
    THEN pa_launch_params(args, i + 2, DictSet(params, From(args[i], 2), args[i + 1]))
    ELSE pa_launch_params(args, i + 1, params)
  ELSE pa_launch_params(args, i + 1,
         IF w_image \in DictKeys(params) THEN params ELSE DictSet(params, w_image, args[i]))

\* parse_launch_command (lines 60-97): ok = FALSE stands for None
parse_launch_command(command) ==
  LET sp == shlex_split(command)
      params == pa_launch_params(sp.args, 3, <<>>)
  IN IF sp.ok /\ Len(sp.args) >= 2 /\ sp.args[1] = w_multipass /\ sp.args[2] = w_launch
        /\ w_name \in DictKeys(params)
     THEN [ok |-> TRUE, params |-> params]
     ELSE [ok |-> FALSE, params |-> <<>>]

\* --------------------------------------- the replies of the language model

Fenced(command) == fence \o command \o fence
Ticked(command) == <<BT>> \o command \o <<BT>>
Quoted(command) == <<"'">> \o command \o <<"'">>

\* '\n'.join(lines)
RECURSIVE Lines(_)
Lines(ls) ==
  IF ls = <<>> THEN <<>>
  ELSE IF Len(ls) = 1 THEN ls[1]
  ELSE ls[1] \o <<NL>> \o Lines(Tail(ls))

sf_n == <<"-", "n">>
sf_m == <<"-", "m">>

\* a launch with short options between single backticks
reply_short == Ticked(Command(<<w_launch, sf_n, n_w1, sf_m, v_1G>>))
\* a launch whose short name option is written twice
reply_twice == Ticked(Command(<<w_launch, sf_n, sf_n, n_w1>>))
reply_fenced == Fenced(Command(<<w_list>>))
reply_launch == Fenced(Command(<<w_launch, f_name, n_w1>>))
reply_frob == Fenced(Command(<<w_frob, n_w1>>))
\* a quoted command, then a fenced one, then a bare line
reply_mixed ==
  Lines(<<Quoted(Command(<<w_stop, n_w1>>)), Fenced(Command(<<w_list>>)), Command(<<w_start, n_w1>>)>>)
reply_two_blocks == Lines(<<Fenced(Command(<<w_start, n_w1>>)), Fenced(Command(<<w_stop, n_w1>>))>>)
\* no fenced block: a bare line and a quoted line, in both orders
reply_bare_quoted == Lines(<<Command(<<w_stop, n_w1>>), Quoted(Command(<<w_start, n_w1>>))>>)
reply_quoted_bare == Lines(<<Quoted(Command(<<w_start, n_w1>>)), Command(<<w_stop, n_w1>>)>>)
\* a command inside a sentence, a block marked as bash, and a text without a command
reply_inline == Join(<<w_frob, w_multipass, w_list, w_frob>>)
reply_bash == fence \o w_bash \o <<NL>> \o Command(<<w_list>>) \o <<NL>> \o fence
reply_none == Join(<<w_frob, n_w1>>)

Replies ==
  {reply_short, reply_twice, reply_fenced, reply_launch, reply_frob, reply_mixed,
   reply_two_blocks, reply_bare_quoted, reply_quoted_bare, reply_inline, reply_bash,
   reply_none}

\* ------------------------------------- api_server.py: chat through the model

\* extract_multipass_command for each reply, and what execute_vm_action_direct
\* makes of the command it returned
extracted == [r \in Replies |-> extract_multipass_command(r)]

reply_plans == [r \in Replies |-> execute_vm_action_direct(extracted[r].group)]

\* POST /chat with a message that is no command (lines 626-766), the model
\* having replied ai_message: the command extracted from the reply, if it is
\* not empty, is handed to execute_vm_action_direct
chat_endpoint_ai(ai_message, o1, o2) ==
  /\ impl = "api_server"
  /\ ~LoopBusy
  /\ LET command == extracted[ai_message]
         plan == reply_plans[ai_message]
     IN IF ~command.found \/ command.group = <<>>
        THEN /\ response' = [Answer("chat_endpoint_ai", <<>>, <<>>, FALSE, "", "")
                               EXCEPT !.text = ai_message]
             /\ invoked' = <<>>
             /\ UNCHANGED <<tasks, ready, overlap, started>>
        ELSE /\ IF plan.kind = "spawn"
                THEN /\ HasFreeTask
                     /\ SpawnCreation(plan.vm_name, plan.vm_config)
                     /\ started' = started \cup {plan.vm_name}
                ELSE UNCHANGED <<tasks, ready, overlap, started>>
             /\ invoked' = plan_invocations(plan, o1, o2)
             /\ response' = [plan_answer(command.group, plan, o1, o2)
                               EXCEPT !.handler = "chat_endpoint_ai", !.text = ai_message,
                                      !.candidates = <<command.group>>]
  /\ UNCHANGED <<impl, conversation_histories, vm_creation_status>>

\* ------------------------------------------------ proxy_agent.py: the chat

\* ---------------------------- proxy_agent1.py: the commands of a model output

amp == <<"&", "&">>

\* str.split(sep)
RECURSIVE SplitOn(_, _)
SplitOn(s, sep) ==
  LET q == Find(s, sep, 1) IN
  IF q = 0 THEN <<s>>
  ELSE <<SubSeq(s, 1, q - 1)>> \o SplitOn(From(s, q + Len(sep) - 1), sep)

\* lines 134-135: the parts of a line, stripped, the empty ones dropped
RECURSIVE split_parts(_)
split_parts(parts) ==
  IF parts = <<>> THEN <<>>
  ELSE (IF Strip(Head(parts)) = <<>> THEN <<>> ELSE <<Strip(Head(parts))>>)
       \o split_parts(Tail(parts))

\* lines 130-135: the lines in order, the empty ones skipped
RECURSIVE split_each(_)
split_each(lines) ==
  IF lines = <<>> THEN <<>>
  ELSE (IF Strip(Head(lines)) = <<>> THEN <<>>
        ELSE split_parts(SplitOn(Strip(Head(lines)), amp)))
       \o split_each(Tail(lines))

\* split_commands (lines 128-136)
split_commands(text) == split_each(split_lines(Strip(text)))

\* chat lines 298-321: what the loop does for one command: the entry appended
\* to exec_results, the invocation made and the creation thread started
pa1_result(cmd, outcome) ==
  LET c == pa1_classify(cmd) IN
  IF ~c.is_multipass
  THEN [command |-> cmd, returncode |-> -1, stderr |-> "NotMultipass",
        invoked |-> <<>>, launch |-> <<>>]
  ELSE IF c.launch
  THEN [command |-> c.cmd_fixed, returncode |-> 0, stderr |-> "",
        invoked |-> <<>>, launch |-> <<[vm_name |-> c.vm_name, arg |-> c.cmd_fixed]>>]
  ELSE LET r == pa1_execute(c.cmd_fixed, outcome) IN
       [command |-> c.cmd_fixed, returncode |-> r.returncode, stderr |-> r.stderr,
        invoked |-> r.invoked, launch |-> <<>>]

\* a loop that ends at the first command that is rejected or fails
pa1_run_until_failure(commands, outcomes) ==
  LET all == [n \in 1..Len(commands) |-> pa1_result(commands[n], outcomes[n])]
      failed == {n \in 1..Len(all) : all[n].returncode # 0}
  IN IF failed = {} THEN all
     ELSE SubSeq(all, 1, CHOOSE n \in failed : \A k \in failed : n <= k)

\* chat lines 298-321: for cmd in commands, one entry of exec_results each
pa1_run_commands(commands, outcomes) ==
  [n \in 1..Len(commands) |-> pa1_result(commands[n], outcomes[n])]

\* model outputs of proxy_agent1: two commands on two lines, two commands
\* chained, a line that is no command before a command, launches among other
\* commands with an empty line, a single command, no command
out_lines == Lines(<<Command(<<w_start, n_w1>>), Command(<<w_list>>)>>)
out_chain == Command(<<w_start, n_w1>>) \o <<SP>> \o amp \o <<SP>> \o Command(<<w_list>>)
out_rejected == Lines(<<Join(<<w_frob, n_w1>>), Command(<<w_list>>)>>)
out_launches ==
  Lines(<<Command(<<w_launch, f_name, n_w1>>), <<>>, Command(<<w_start, n_w1>>),
          Command(<<w_launch, f_name, n_w1>>)>>)
out_one == Command(<<w_list>>)
out_none == <<SP, NL>>
ModelOutputs == {out_lines, out_chain, out_rejected, out_launches, out_one, out_none}

output_commands == [m \in ModelOutputs |-> split_commands(m)]

\* the command is one the loop runs the binary for
pa1_runs(command) ==
  /\ pa1_classify(command).is_multipass
  /\ ~pa1_classify(command).launch
  /\ shlex_split(normalize_command(pa1_classify(command).cmd_fixed)).ok

\* how the runs of the commands of a model output can end; a command that is
\* not run has no outcome to choose
output_outcomes ==
  [m \in ModelOutputs |->
     {os \in [1..Len(output_commands[m]) -> ExecOutcomes] :
        \A n \in 1..Len(output_commands[m]) :
          ~pa1_runs(output_commands[m][n]) => os[n] = "Success"}]

Outcomes(model_output) == output_outcomes[model_output]

\* the entries of exec_results for each model output and each way its runs end
OutputRuns == UNION {{<<m, os>> : os \in Outcomes(m)} : m \in ModelOutputs}

output_results ==
  [x \in OutputRuns |-> pa1_run_commands(output_commands[x[1]], x[2])]

\* the invocations made for the entries of exec_results, in order
RECURSIVE all_invoked(_)
all_invoked(exec_results) ==
  IF exec_results = <<>> THEN <<>>
  ELSE Head(exec_results).invoked \o all_invoked(Tail(exec_results))

\* the creation threads started for the entries of exec_results, in order
RECURSIVE all_launches(_)
all_launches(exec_results) ==
  IF exec_results = <<>> THEN <<>>
  ELSE Head(exec_results).launch \o all_launches(Tail(exec_results))

\* threading.Thread(...).start() (line 309) for each launch of the output, in
\* order: the task slots and the overlapping names after it
RECURSIVE start_threads(_, _, _)
start_threads(ts, ov, launches) ==
  IF launches = <<>> THEN [tasks |-> ts, overlap |-> ov]
  ELSE LET l == Head(launches)
           free == CHOOSE t \in DOMAIN ts :
                     ts[t].pc = "idle" /\ \A u \in 1..(t - 1) : ts[u].pc # "idle"
       IN start_threads([ts EXCEPT ![free] = NewTask(l.vm_name, l.arg)],
                        IF \E u \in DOMAIN ts : ts[u].pc # "idle" /\ ts[u].name = l.vm_name
                        THEN ov \cup {l.vm_name} ELSE ov \ {l.vm_name},
                        Tail(launches))

\* chat lines 295-323: the commands of the model output have been processed
\* with the entries exec_results; the threads of the launches are started and
\* the answer holds the entries
pa1_chat_answer(model_output, commands, exec_results, launches) ==
  /\ Cardinality({t \in Slots : tasks[t].pc = "idle"}) >= Len(launches)
  /\ tasks' = start_threads(tasks, overlap, launches).tasks
  /\ overlap' = start_threads(tasks, overlap, launches).overlap
  /\ started' = started \cup {launches[n].vm_name : n \in 1..Len(launches)}
  /\ invoked' = all_invoked(exec_results)
  /\ response' = [NoResponse EXCEPT !.handler = "chat_lines", !.text = model_output,
                                    !.candidates = commands, !.results = exec_results]

\* chat (lines 274-323) for a model output of any number of commands; outcomes
\* tells how the run of each command ends
pa1_chat_lines(session_id, model_output, outcomes) ==
  /\ impl = "proxy_agent1"
  /\ Len(session_history(conversation_histories, session_id)) < MaxHistory
  /\ conversation_histories' = history_replied(conversation_histories, session_id)
  /\ pa1_chat_answer(model_output, output_commands[model_output],
                     output_results[<<model_output, outcomes>>],
                     all_launches(output_results[<<model_output, outcomes>>]))
  /\ UNCHANGED <<impl, vm_creation_status, ready>>

NoRequest == [method |-> "", endpoint |-> <<>>, vm_name |-> <<>>, body |-> <<>>]
Request(method, endpoint, vm_name, body) ==
  [method |-> method, endpoint |-> endpoint, vm_name |-> vm_name, body |-> body]

Result(command, success, details, request) ==
  [operation |-> command, success |-> success, details |-> details, request |-> request]

\* execute_multipass_command (lines 99-140): the request sent to the API server
\* for the command, ok telling whether the server answered it with success
execute_multipass_command(command, ok) ==
  LET sp == shlex_split(command)
      args == sp.args
      action == args[2]
      sent == IF ok THEN "" ELSE "Unreachable"
  IN IF ~sp.ok THEN Result(command, FALSE, "InternalError", NoRequest)
     ELSE IF Len(args) < 2 \/ args[1] # w_multipass
       THEN Result(command, FALSE, "InvalidCommand", NoRequest)
     ELSE IF action = w_launch THEN
       IF ~parse_launch_command(command).ok
       THEN Result(command, FALSE, "LaunchNotParsed", NoRequest)
       ELSE Result(command, ok, sent,
                   Request("post", w_create, <<>>, parse_launch_command(command).params))
     ELSE IF action \in {w_start, w_stop, w_delete} THEN
       IF Len(args) < 3 THEN Result(command, FALSE, "MissingResourceName", NoRequest)
       ELSE Result(command, ok, sent,
                   Request(IF action = w_delete THEN "delete" ELSE "post", action, args[3], <<>>))
     ELSE Result(command, FALSE, "Unsupported", NoRequest)

pa_candidates == [r \in Replies |-> extract_multipass_commands(r)]

\* chat (lines 252-309), the model having replied ai_response_text: every
\* command found in the reply is executed, in the order found
pa_chat(session_id, ai_response_text, oks) ==
  /\ impl = "proxy_agent"
  /\ Len(session_history(conversation_histories, session_id)) < MaxHistory
  /\ conversation_histories' = history_replied(conversation_histories, session_id)
  /\ LET commands_to_run == pa_candidates[ai_response_text] IN
       response' = [NoResponse EXCEPT
                      !.handler = "pa_chat", !.text = ai_response_text,
                      !.candidates = commands_to_run,
                      !.results = [n \in 1..Len(commands_to_run) |->
                                     execute_multipass_command(commands_to_run[n], oks[n])]]
  /\ invoked' = <<>>
  /\ UNCHANGED <<impl, vm_creation_status, tasks, ready, started, overlap>>

\* the answers of the API server to the requests of one chat
Oks(ai_response_text) == [1..Len(pa_candidates[ai_response_text]) -> BOOLEAN]

\* ------------------------------------------------------ specifications

\* the inputs that dispatch a creation
LaunchMessages == {m \in ChatMessages : direct_plans[m].kind = "spawn"}
LaunchCommands == {c \in ChatCommands : classified[c].is_multipass /\ classified[c].launch}

\* The lifecycle: creations dispatched through every entry point, the steps of
\* the creation tasks, status polls, and the requests that start, stop or
\* delete a resource.
Next ==
  \/ \E n \in VmNames, c \in Configs : create_vm_async(n, c)
  \/ \E m \in LaunchMessages : chat_endpoint(m, "Success", "Success")
  \/ task_begin
  \/ \E t \in TaskIds : task_validate(t)
  \/ \E t \in TaskIds, o \in LaunchOutcomes : task_launch_return(t, o)
  \/ \E t \in TaskIds, o \in InfoOutcomes : task_info_return(t, o)
  \/ \E n \in VmNames \cup {<<>>}, c \in Configs : api1_create_vm(n, c)
  \/ \E s \in SessionIds, c \in LaunchCommands : pa1_chat(s, c, "Success")
  \/ \E t \in TaskIds : thread_begin(t)
  \/ \E t \in TaskIds, o \in ExecOutcomes : api1_thread_finish(t, o)
  \/ \E t \in TaskIds, o \in ExecOutcomes : pa1_thread_finish(t, o)
  \/ \E n \in PollNames : poll_arrives(n)
  \/ get_vm_creation_status
  \/ \E a \in {w_start, w_stop}, n \in VmNames : start_stop_vm(a, n, "Success")
  \/ \E n \in VmNames : delete_vm(n, "Success", "Success")

Spec == Init /\ [][Next]_vars

\* The creations alone: their dispatch through every entry point and the steps
\* of the creation tasks.
CreationNext ==
  \/ \E n \in VmNames, c \in Configs : create_vm_async(n, c)
  \/ \E m \in LaunchMessages : chat_endpoint(m, "Success", "Success")
  \/ task_begin
  \/ \E t \in TaskIds : task_validate(t)
  \/ \E t \in TaskIds, o \in LaunchOutcomes : task_launch_return(t, o)
  \/ \E t \in TaskIds, o \in InfoOutcomes : task_info_return(t, o)
  \/ \E n \in VmNames \cup {<<>>}, c \in Configs : api1_create_vm(n, c)
  \/ \E s \in SessionIds, c \in LaunchCommands : pa1_chat(s, c, "Success")
  \/ \E t \in TaskIds : thread_begin(t)
  \/ \E t \in TaskIds, o \in ExecOutcomes : api1_thread_finish(t, o)
  \/ \E t \in TaskIds, o \in ExecOutcomes : pa1_thread_finish(t, o)

\* The asyncio loop runs its ready callbacks in FIFO order and a worker's
\* result is delivered to the waiting task; every subprocess run has a timeout,
\* and a started thread runs to its end.
Fairness ==
  /\ SF_vars(task_begin)
  /\ \A t \in TaskIds :
       /\ WF_vars(task_validate(t))
       /\ SF_vars(\E o \in LaunchOutcomes : task_launch_return(t, o))
       /\ SF_vars(\E o \in InfoOutcomes : task_info_return(t, o))
       /\ WF_vars(thread_begin(t))
       /\ WF_vars(\E o \in ExecOutcomes : api1_thread_finish(t, o))
       /\ WF_vars(\E o \in ExecOutcomes : pa1_thread_finish(t, o))

FairSpec == Init /\ [][CreationNext]_vars /\ Fairness

\* The command pipeline: every request that carries a command or names a
\* resource, with every way its invocations can end. The creation tasks these
\* requests dispatch are followed in Spec.
PipelineNext ==
  \/ \E m \in ChatMessages \cup FlagMessages :
       \E o \in PlanOutcomes(direct_plans[m].kind) : chat_endpoint(m, o[1], o[2])
  \/ \E a \in {w_start, w_stop}, n \in VmNames, o \in ExecOutcomes : start_stop_vm(a, n, o)
  \/ \E n \in VmNames : \E o \in PlanOutcomes("delete") : delete_vm(n, o[1], o[2])
  \/ \E n \in VmNames, c \in Configs, o \in ExecOutcomes : create_vm(n, c, o)
  \/ \E s \in SessionIds, c \in ChatCommands \cup ReleaseCommands :
       \E o \in ChatOutcomes(c) : pa1_chat(s, c, o)
  \/ \E r \in Replies : \E o \in PlanOutcomes(reply_plans[r].kind) : chat_endpoint_ai(r, o[1], o[2])
  \/ \E s \in SessionIds, r \in Replies : \E oks \in Oks(r) : pa_chat(s, r, oks)

PipelineSpec == Init /\ [][PipelineNext]_vars

\* ThreadPoolExecutor(max_workers=3) (api_server.py line 42, api_server1.py
\* line 22)
max_workers == 3

\* the creation tasks whose call of the binary has been started and has not
\* returned: handed to the worker pool (api_server, run_in_executor) or made by
\* the task's own thread (api_server1 line 96, proxy_agent1 line 309)
Submitted == {t \in Slots : tasks[t].pc \in {"launching", "fetching"}}

\* the invocations that are running: the pool runs at most max_workers of the
\* calls handed to it and queues the others; a thread runs its call at once
Running ==
  IF impl = "api_server"
  THEN (IF Cardinality(Submitted) < max_workers THEN Cardinality(Submitted) ELSE max_workers)
  ELSE Cardinality(Submitted)

\* Creations in number: up to MaxThreads creation tasks at a time, each launch
\* succeeding.
PoolInit ==
  /\ impl \in Impls
  /\ vm_creation_status = <<>>
  /\ tasks = [t \in 1..MaxThreads |-> IdleTask]
  /\ ready = <<>>
  /\ started = {}
  /\ overlap = {}
  /\ invoked = <<>>
  /\ conversation_histories = <<>>
  /\ response = NoResponse

PoolNext ==
  \/ \E c \in Configs : create_vm_async(n_w1, c)
  \/ task_begin
  \/ \E t \in Slots : task_validate(t)
  \/ \E t \in Slots : task_launch_return(t, "Success")
  \/ \E t \in Slots : task_info_return(t, "Json")
  \/ \E c \in Configs : api1_create_vm(n_w1, c)
  \/ \E s \in SessionIds, c \in LaunchCommands : pa1_chat(s, c, "Success")
  \/ \E t \in Slots : thread_begin(t)
  \/ \E t \in Slots : api1_thread_finish(t, "Success")
  \/ \E t \in Slots : pa1_thread_finish(t, "Success")

PoolSpec == PoolInit /\ [][PoolNext]_vars

\* The conversations: chat calls of a session on the two proxies, the model
\* replying or the request to it failing.
HistoryReplies == {reply_short, reply_none}
HistoryCommands == {Command(<<w_list>>)}

HistoryNext ==
  \/ \E s \in SessionIds, r \in HistoryReplies : \E oks \in Oks(r) : pa_chat(s, r, oks)
  \/ \E s \in SessionIds, c \in HistoryCommands : pa1_chat(s, c, "Success")
  \/ \E s \in SessionIds \cup {""} : chat_fails(s)

HistorySpec == Init /\ [][HistoryNext]_vars

\* The replies with their commands: chat calls of the two proxies with every
\* way the commands of the reply can end, and the creation threads they start.
BatchNext ==
  \/ \E s \in SessionIds, r \in Replies : \E oks \in Oks(r) : pa_chat(s, r, oks)
  \/ \E s \in SessionIds, m \in ModelOutputs :
       \E os \in Outcomes(m) : pa1_chat_lines(s, m, os)
  \/ \E t \in Slots : thread_begin(t)
  \/ \E t \in Slots, o \in ExecOutcomes : pa1_thread_finish(t, o)

BatchSpec == Init /\ [][BatchNext]_vars


\* ----------------------------------------------------------------- claims

Terminal == {"completed", "error"}

HasRecord(n) == n \in DOMAIN vm_creation_status

\* C1: In every interleaving of creation tasks and polls, overlapping creations
\* of one name included, the record of a name never changes directly from
\* Completed to Error or from Error to Completed.
C1_NoDirectJump ==
  [][\A n \in DOMAIN vm_creation_status :
       ~ /\ vm_creation_status[n].status \in Terminal
         /\ vm_creation_status'[n].status \in Terminal
         /\ vm_creation_status'[n].status # vm_creation_status[n].status]_vars

\* C2: Under fair scheduling every dispatched creation task ends, and a name
\* whose record is Creating eventually has a record that is Completed or Error,
\* whatever the launch and the info fetch return.
C2_CreatingEnds ==
  /\ \A n \in PollNames :
       (HasRecord(n) /\ vm_creation_status[n].status = "creating")
         ~> (HasRecord(n) /\ vm_creation_status[n].status \in Terminal)
  /\ \A t \in TaskIds : Active(t) ~> ~Active(t)

\* C2 witness: a task whose info fetch raised has ended with a terminal record
C2_Witness ==
  /\ response.handler = "task_info_end"
  /\ response.outcome = "Raise"
  /\ ~Active(response.t)
  /\ vm_creation_status[response.name].status \in Terminal

\* C3: A status poll issued after the caller was answered status=started for
\* the name never returns Unknown.
C3_StartedThenCreating ==
  (response.handler = "get_vm_creation_status" /\ response.after)
    => response.rec.status # "unknown"

\* C4: After a launch that succeeded, whatever the info fetch returns, the record
\* is Completed with a non-empty message, and it carries the detail exactly when
\* the fetch succeeded and its output parsed.
C4_CompletedWhateverInfo ==
  response.handler = "task_info_end" =>
    LET rec == vm_creation_status[response.name] IN
      /\ rec.status = "completed"
      /\ rec.message.tpl # ""
      /\ ("vm_info" \in DOMAIN rec) <=> (response.outcome = "Json")

\* C4 witness: the info fetch returned an error and the record is Completed
\* without detail
C4_Witness ==
  /\ response.handler = "task_info_end"
  /\ response.outcome \in {"Error", "BadJson"}
  /\ vm_creation_status[response.name] = DegradedRec(response.name)

\* C5: For a name whose creations do not overlap, every write of its record is
\* Unknown -> Creating, Creating -> Completed or Error, or Completed or Error ->
\* Creating, and a begin writes the Creating record with nothing of the record
\* it replaces.
C5_SequentialLifecycle ==
  [][\A n \in DOMAIN vm_creation_status' :
       (n \notin overlap /\ (~HasRecord(n) \/ vm_creation_status'[n] # vm_creation_status[n]))
         => \/ ~HasRecord(n) /\ vm_creation_status'[n] = CreatingRec(n)
            \/ /\ HasRecord(n)
               /\ vm_creation_status[n].status = "creating"
               /\ vm_creation_status'[n].status \in Terminal
            \/ /\ HasRecord(n)
               /\ vm_creation_status[n].status \in Terminal
               /\ vm_creation_status'[n] = CreatingRec(n)]_vars

\* C5 witness: a begin has replaced a Completed record that carried detail
C5_Witness ==
  /\ response.handler = "task_begin"
  /\ response.name \notin overlap
  /\ response.rec = CompletedInfoRec(response.name)
  /\ vm_creation_status[response.name] = CreatingRec(response.name)

\* C6: No step removes a lifecycle record; a poll of a name that has a record
\* never returns Unknown, and a poll of a name without a record returns Unknown
\* and creates no record.
C6_RecordsPersist ==
  [][/\ DOMAIN vm_creation_status \subseteq DOMAIN vm_creation_status'
     /\ response'.handler = "get_vm_creation_status" =>
          IF response'.name \in DOMAIN vm_creation_status
          THEN response'.rec.status # "unknown"
          ELSE /\ response'.rec = UnknownRec(response'.name)
               /\ vm_creation_status' = vm_creation_status]_vars

\* C6 witness: a delete of a name has succeeded and the record of the name is
\* still there
C6_Witness ==
  /\ response.handler = "delete_vm"
  /\ response.success
  /\ HasRecord(response.name)
  /\ vm_creation_status[response.name].status = "completed"

\* C7: The record a poll returns is the Unknown answer or a record that one
\* write wrote as a whole.
C7_NoTornRead ==
  response.handler = "get_vm_creation_status" =>
    \/ response.rec = UnknownRec(response.name)
    \/ response.rec = CreatingRec(response.name)
    \/ response.rec = InvalidNameRec
    \/ response.rec = ErrorRec
    \/ response.rec = CompletedRec(response.name)
    \/ response.rec = CompletedInfoRec(response.name)
    \/ response.rec = DegradedRec(response.name)

\* C7 witness: a poll has returned a Completed record with detail while another
\* creation of the same name is in flight
C7_Witness ==
  /\ response.handler = "get_vm_creation_status"
  /\ response.rec = CompletedInfoRec(response.name)
  /\ \E t \in TaskIds : Active(t) /\ tasks[t].name = response.name

\* the operation of an argument vector: the token after the binary
Operation(argv) == IF Len(argv) >= 2 THEN argv[2] ELSE <<>>

Vocabulary == {w_launch, w_start, w_stop, w_delete, w_purge, w_recover, w_list, w_info}

NameOperations == {w_launch, w_start, w_stop, w_delete, w_recover, w_info}

\* the resource name of an argument vector: the value of --name for a launch,
\* the token after the operation otherwise
InvokedName(argv) ==
  IF Operation(argv) = w_launch THEN (IF Len(argv) >= 4 THEN argv[4] ELSE <<>>)
  ELSE IF Len(argv) >= 3 THEN argv[3] ELSE <<>>

\* C8: No child process is started for a command whose operation is outside the
\* vocabulary.
C8_VocabularyOnly ==
  \A i \in 1..Len(invoked) :
    invoked[i].spawned => Operation(invoked[i].argv) \in Vocabulary

\* C9: No child process is started for an operation that requires a resource
\* name when the command supplies none.
C9_NameRequired ==
  \A i \in 1..Len(invoked) :
    (invoked[i].spawned /\ Operation(invoked[i].argv) \in NameOperations)
      => Len(invoked[i].argv) >= 3

\* C10: No child process is started with a resource name that has a character
\* other than letters, digits, hyphen and underscore.
C10_ValidNamesOnly ==
  \A i \in 1..Len(invoked) :
    (invoked[i].spawned /\ InvokedName(invoked[i].argv) # <<>>)
      => valid_vm_name(InvokedName(invoked[i].argv))

\* C11: A launch command in a submitted text whose resource name is invalid is
\* answered as not executed: the caller is never answered status=started for it.
C11_InvalidLaunchRejected ==
  (response.handler = "chat_endpoint" /\ response.status = "started")
    => valid_vm_name(response.name)

\* the options the launch of a creation may carry
RecognizedOptions == {f_name, f_memory, f_disk, f_cpus, dd \o w_image}

\* C12: The argument vector of a launch carries no option outside the recognized
\* set: a key of the request or command outside it never reaches the invocation.
C12_RecognizedOptionsOnly ==
  \A i \in 1..Len(invoked) :
    (invoked[i].spawned /\ Operation(invoked[i].argv) = w_launch) =>
      \A j \in 3..Len(invoked[i].argv) :
        StartsWith(invoked[i].argv[j], dd) => invoked[i].argv[j] \in RecognizedOptions

\* C13: A launch command with an unknown option added, without or with a value,
\* at any place between its options, is accepted like the command without it,
\* with the same resource name and the same recognized parameters.
C13_UnknownFlagIgnored ==
  (response.handler = "chat_endpoint" /\ response.command \in FlagMessages) =>
    LET plain == direct_plans[Command(base_launch)]
        flagged == direct_plans[response.command]
    IN /\ plain.kind = "spawn"
       /\ flagged.kind = "spawn"
       /\ response.success
       /\ response.name = plain.vm_name
       /\ flagged.vm_config = plain.vm_config

AiHandlers == {"chat_endpoint_ai", "pa_chat"}

\* C14: Normalizing a command a second time changes nothing: the command that
\* the extractor returns normalized, short options written twice included, is
\* left as it is by the normalization of the classifier.
C14_NormalizeIdempotent ==
  (response.handler = "chat_endpoint_ai" /\ response.candidates # <<>>) =>
    normalize_multipass_command(response.command) = response.command

\* C15: A launch between backticks with the short options for name and memory
\* is extracted, normalized and classified as a launch of that name with that
\* memory, and the normalized command holds the default release.
C15_ShortFlagRoundTrip ==
  (response.handler = "chat_endpoint_ai" /\ response.text = reply_short) =>
    /\ response.status = "started"
    /\ response.name = n_w1
    /\ reply_plans[reply_short].vm_config = <<<<w_memory, v_1G>>>>
    /\ Contains(response.command, r_2204)

\* C17: From a reply with a fenced command, a quoted command before it and a
\* bare command line after it, the only candidate is the fenced command.
C17_FencedBlockOnly ==
  (response.handler \in AiHandlers /\ response.text = reply_mixed) =>
    /\ Len(response.candidates) = 1
    /\ Contains(response.candidates[1], w_list)
    /\ ~Contains(response.candidates[1], w_stop)
    /\ ~Contains(response.candidates[1], w_start)

\* C18: From a reply with two fenced commands there are two candidates, the
\* commands of the blocks in the order of the text.
C18_EveryBlockInOrder ==
  (response.handler \in AiHandlers /\ response.text = reply_two_blocks) =>
    /\ Len(response.candidates) = 2
    /\ Contains(response.candidates[1], w_start)
    /\ Contains(response.candidates[2], w_stop)

\* C19: From a reply without a fenced block that has a quoted command line and
\* a bare command line, in either order, the candidate is the quoted command.
C19_QuotedBeforeBare ==
  (response.handler = "chat_endpoint_ai"
     /\ response.text \in {reply_bare_quoted, reply_quoted_bare}) =>
    /\ Len(response.candidates) = 1
    /\ Contains(response.candidates[1], w_start)

ReleaseTokens ==
  {r_2204, r_2404, r_2004, w_jammy, w_noble,
   w_ubuntu_ \o r_2204, w_ubuntu_ \o r_2404, w_ubuntu_ \o r_2004}

ReleaseCount(command) ==
  LET args == shlex_split(command).args IN Cardinality({i \in 1..Len(args) : args[i] \in ReleaseTokens})

\* C16: A launch command that names a release, by its long spelling or after
\* its options, is corrected to a command with exactly one release token: no
\* default release is put in front of the release it names.
C16_OneReleaseToken ==
  (response.handler = "chat" /\ response.command \in ReleaseCommands) =>
    ReleaseCount(classified[response.command].cmd_fixed) = 1

\* C20: For a text without the binary name no command is found, nothing is
\* executed, and no error is reported.
C20_NoTokenNoCommand ==
  LET text == IF response.handler = "chat" THEN response.command ELSE response.text IN
  (response.handler \in AiHandlers \cup {"chat"} /\ ~Contains(text, w_multipass)) =>
    /\ response.candidates = <<>>
    /\ invoked = <<>>
    /\ response.error = ""
    /\ ~response.success

\* C21: An invocation for which the control binary is not found starts no child
\* process, and the function that ran it returns the outcome to its caller as a
\* value: it does not raise it.
C21_ToolNotFoundReturned ==
  \A i \in 1..Len(invoked) :
    invoked[i].outcome = "ToolNotFound" =>
      ~invoked[i].spawned /\ ~invoked[i].report.raised

\* the outcome kind a caller reads from what it was handed
ReportedKind(r) ==
  IF ~r.raised /\ r.code = 0 /\ r.text \in {"success", "stdout", ""} THEN "Success"
  ELSE IF r.text \in {"Command timed out", "Komut zaman asimina ugradi", "Komut zaman asimina ugradi."}
    THEN "Timeout"
  ELSE IF r.text \in {"Multipass command failed: stderr", "Multipass komutu basarisiz oldu: stderr"}
          \/ (~r.raised /\ r.code > 0)
    THEN "NonZeroExit"
  ELSE "Other"

C23_NoShell ==
  \A i \in 1..Len(invoked) : invoked[i].spawned => ~invoked[i].shell

ChatHandlers == {"chat_endpoint", "chat_endpoint_ai", "chat"}

\* C24: The answer to a submitted text reports every failure of an invocation
\* made for it: when an invocation did not succeed the answer is a failure that
\* carries a reason.
C24_FailuresReturned ==
  (response.handler \in ChatHandlers /\ \E i \in 1..Len(invoked) : invoked[i].outcome # "Success") =>
    ~response.success /\ response.error # ""

\* C28: A delete answers success only when its delete invocation and its purge
\* invocation both succeeded, and no purge is invoked after a delete that failed.
C28_DeleteNeedsPurge ==
  (response.handler \in {"chat_endpoint", "chat_endpoint_ai", "delete_vm"}
     /\ invoked # <<>> /\ Operation(invoked[1].argv) = w_delete) =>
    /\ response.success =>
         Len(invoked) = 2 /\ \A i \in 1..2 : invoked[i].outcome = "Success"
    /\ invoked[1].outcome # "Success" => Len(invoked) = 1

\* the record that the step of a creation task that has just ended writes
Wrote ==
  LET n == response'.name IN
  IF response'.handler = "task_info_end" THEN info_rec(n, response'.outcome)
  ELSE IF impl = "api_server" THEN (IF valid_vm_name(n) THEN ErrorRec ELSE InvalidNameRec)
  ELSE IF invoked' # <<>> /\ invoked'[1].outcome = "Success" THEN CompletedRec(n)
  ELSE ErrorRec

\* C26: A creation task that begins for a name whose record is Creating writes
\* the Creating record and goes on, and the step that ends a creation task
\* leaves the record that this step writes, whatever record another task of the
\* same name had left before.
C26_LastWriterWins ==
  [][/\ (response'.handler = "task_begin" /\ response'.rec.status = "creating") =>
          /\ vm_creation_status'[response'.name] = CreatingRec(response'.name)
          /\ tasks'[response'.t].pc \in {"validating", "launching"}
     /\ response'.handler \in {"task_end", "task_info_end"} =>
          vm_creation_status'[response'.name] = Wrote]_vars

\* C26 witness: two creations of one name have overlapped and both have ended;
\* the one that ended first had left Error, the one that ended last left
\* Completed
C26_Witness ==
  /\ response.handler = "task_end"
  /\ response.name \in overlap
  /\ response.rec = ErrorRec
  /\ vm_creation_status[response.name] = CompletedRec(response.name)
  /\ \A t \in TaskIds : ~Active(t)

\* the keys of the lifecycle map whose record a step adds, removes or changes
Touched ==
  {k \in DOMAIN vm_creation_status \cup DOMAIN vm_creation_status' :
     \/ k \notin DOMAIN vm_creation_status
     \/ k \notin DOMAIN vm_creation_status'
     \/ vm_creation_status'[k] # vm_creation_status[k]}

\* C27: Every step touches the record of at most one key; a step of the
\* creation task of a name touches no record but that of its own name, and a
\* status poll touches no record.
C27_OneKeyTouched ==
  [][/\ Cardinality(Touched) <= 1
     /\ response'.t # 0 => /\ tasks[response'.t].name = response'.name
                           /\ Touched \subseteq {response'.name}
     /\ response'.handler = "get_vm_creation_status" => Touched = {}]_vars

\* C27 witness: a creation task has written the last record of its name while
\* another name has a record and a creation task in flight
C27_Witness ==
  /\ response.handler \in {"task_end", "task_info_end"}
  /\ HasRecord(response.name)
  /\ \E t \in TaskIds :
       /\ Active(t)
       /\ tasks[t].name # response.name
       /\ HasRecord(tasks[t].name)
       /\ vm_creation_status[tasks[t].name] = CreatingRec(tasks[t].name)

\* C25: At most three invocations of the binary are running at any time.
C25_AtMostThreeRunning == Running <= max_workers

\* C29: Every stored conversation history starts with the system message and
\* has at most 11 entries.
C29_HistoryBounded ==
  \A s \in DOMAIN conversation_histories :
    /\ conversation_histories[s][1] = system_message
    /\ Len(conversation_histories[s]) <= 11

\* the commands occur in the text one after the other, from position i on
RECURSIVE InTextOrder(_, _, _)
InTextOrder(text, commands, i) ==
  \/ commands = <<>>
  \/ LET p == Find(text, Head(commands), i) IN
       p # 0 /\ InTextOrder(text, Tail(commands), p + Len(Head(commands)))

\* proxy_agent: the command is one the handler sends a request for
pa_sends(command) == execute_multipass_command(command, TRUE).request # NoRequest

\* C30: The commands of a reply are processed in the order they have in the
\* text and the answer holds one result per command in that order; every
\* command that can be executed is executed, whatever happened to the commands
\* before it.
C30_OneResultPerCommand ==
  response.handler \in {"pa_chat", "chat_lines"} =>
    LET c == response.candidates
        r == response.results
    IN /\ InTextOrder(response.text, c, 1)
       /\ Len(r) = Len(c)
       /\ \A n \in 1..Len(c) :
            IF response.handler = "pa_chat"
            THEN /\ r[n].operation = c[n]
                 /\ pa_sends(c[n]) => r[n].request # NoRequest
            ELSE /\ r[n].command = IF pa1_classify(c[n]).is_multipass
                                   THEN pa1_classify(c[n]).cmd_fixed ELSE c[n]
                 /\ pa1_runs(c[n]) => r[n].invoked # <<>>
                 /\ (pa1_classify(c[n]).is_multipass /\ pa1_classify(c[n]).launch) =>
                      r[n].launch # <<>>
       /\ response.handler = "chat_lines" =>
            invoked = all_invoked(r)

\* C30 witness: a reply of two commands, the first rejected or failed, the
\* second run with success
C30_Witness ==
  /\ response.handler = "chat_lines"
  /\ Len(response.candidates) = 2
  /\ response.results[1].returncode # 0
  /\ response.results[2].returncode = 0
  /\ response.results[2].invoked # <<>>

====
